---------------------------- MODULE Spec2Model ----------------------------
(***************************************************************************)
(* Roll & Write Foundry: the core rules engine (packages/core) and the     *)
(* desktop app's session simulation.                                       *)
(*                                                                         *)
(*   - Xorshift128Plus     the deterministic RNG, on 64-bit words          *)
(*   - evaluateExpression  the formula evaluator, on compiled ASTs         *)
(*   - GameSession         the turn-phase state machine                    *)
(*   - autoplay            the policy runner                               *)
(*   - simulateSession     re-simulation of a command list                 *)
(*                                                                         *)
(* A 64-bit word is a sequence of 64 bits, least significant first, so     *)
(* that the generator's shifts, xors and wrap-around additions are exact.  *)
(* Numbers of the formula language are modelled as integers.               *)
(***************************************************************************)
EXTENDS Integers, Sequences, FiniteSets, TLC

(***************************************************************************)
(* Optional values (undefined / null in the source).                       *)
(***************************************************************************)
None == <<>>

Some(x) == <<x>>

IsSome(o) == Len(o) = 1

Get(o) == o[1]

(***************************************************************************)
(* 64-bit words (bigint masked with UINT64_MASK).                          *)
(***************************************************************************)
WordBits == 64

\* The word whose i-th bit (1-based, least significant first) is f[i], as a
\* tuple of its bits.
Word(f) == SubSeq(f, 1, WordBits)

\* 2^k for the small k used to read the bits of a model-sized integer.
Pow2(k) == 2 ^ k

\* BigInt(n) for a small non-negative integer n (n < 2^30).
WordOf(n) == Word([i \in 1..WordBits |-> IF i <= 30 THEN (n \div Pow2(i - 1)) % 2 ELSE 0])

ZeroWord == Word([i \in 1..WordBits |-> 0])

\* UINT64_MASK = (1n << 64n) - 1n: all 64 bits set.
UINT64_MASK == Word([i \in 1..WordBits |-> 1])

\* a ^ b
Xor(a, b) == Word([i \in 1..WordBits |-> (a[i] + b[i]) % 2])

\* (a << k) & UINT64_MASK
Shl(a, k) == Word([i \in 1..WordBits |-> IF i > k THEN a[i - k] ELSE 0])

\* a >> k
Shr(a, k) == Word([i \in 1..WordBits |-> IF i + k <= WordBits THEN a[i + k] ELSE 0])

\* A word as four 16-bit limbs, most significant first.
LimbBase == Pow2(16)

Limbs(w) ==
    [k \in 1..4 |->
        LET lo == 16 * (4 - k)
            nib(j) == w[lo + 4 * j + 1] + 2 * w[lo + 4 * j + 2]
                      + 4 * w[lo + 4 * j + 3] + 8 * w[lo + 4 * j + 4]
        IN nib(0) + 16 * nib(1) + 256 * nib(2) + 4096 * nib(3)]

FromLimbs(l) ==
    Word([i \in 1..WordBits |->
        (l[4 - ((i - 1) \div 16)] \div Pow2((i - 1) % 16)) % 2])

\* The sum of two words given as limbs; the carry out of bit 63 is dropped.
AddLimbs(x, y) ==
    LET s4 == x[4] + y[4]
        s3 == x[3] + y[3] + (s4 \div LimbBase)
        s2 == x[2] + y[2] + (s3 \div LimbBase)
        s1 == x[1] + y[1] + (s2 \div LimbBase)
    IN <<s1 % LimbBase, s2 % LimbBase, s3 % LimbBase, s4 % LimbBase>>

\* toUint64(a + b)
AddWord(a, b) == FromLimbs(AddLimbs(Limbs(a), Limbs(b)))

\* The remainder modulo m of a word given as limbs: Horner's rule.
ModLimbs(x, m) ==
    LET r1 == x[1] % m
        r2 == (r1 * LimbBase + x[2]) % m
        r3 == (r2 * LimbBase + x[3]) % m
    IN (r3 * LimbBase + x[4]) % m

\* Number(a % BigInt(m)) for a small positive m (m < 2^15)
ModWord(a, m) == ModLimbs(Limbs(a), m)

\* a < b on unsigned words: they differ, and at the most significant bit
\* where they differ a has 0 and b has 1.
LessWord(a, b) ==
    \E i \in 1..WordBits :
        /\ a[i] < b[i]
        /\ \A j \in (i + 1)..WordBits : a[j] = b[j]

\* UINT64_MASK - BigInt(r) for 0 <= r < 2^30: no borrow leaves the low bits,
\* so the difference is the bitwise complement of r.
MaskMinus(r) == Word([i \in 1..WordBits |-> 1 - WordOf(r)[i]])

\* a - b on words with a >= b: a + ~b + 1, the carry dropped.
SubWord(a, b) == AddWord(AddWord(a, Xor(b, UINT64_MASK)), WordOf(1))

\* A word as eight bytes, least significant first, and back.
Bytes(w) ==
    [k \in 0..7 |->
        w[8 * k + 1] + 2 * w[8 * k + 2] + 4 * w[8 * k + 3] + 8 * w[8 * k + 4]
        + 16 * w[8 * k + 5] + 32 * w[8 * k + 6] + 64 * w[8 * k + 7] + 128 * w[8 * k + 8]]

FromBytes(y) == Word([i \in 1..WordBits |-> (y[(i - 1) \div 8] \div Pow2((i - 1) % 8)) % 2])

RECURSIVE Column(_, _, _, _)
\* The sum of the byte products x[i] * y[k - i] for i = 0..n.
Column(x, y, k, n) ==
    IF n < 0 THEN 0 ELSE x[n] * y[k - n] + Column(x, y, k, n - 1)

\* toUint64(a * b): schoolbook multiplication on bytes, the columns above
\* bit 63 dropped.
MulWord(a, b) ==
    LET x == Bytes(a)
        y == Bytes(b)
        total[k \in 0..7] == Column(x, y, k, k) + (IF k = 0 THEN 0 ELSE total[k - 1] \div 256)
    IN FromBytes([k \in 0..7 |-> total[k] % 256])

\* 2 * rem + bit, the carry dropped.
Doubled(rem, bit) == Word([j \in 1..WordBits |-> IF j = 1 THEN bit ELSE rem[j - 1]])

\* d - b if d has reached b, else d.
Reduced(d, b) == IF LessWord(d, b) THEN d ELSE SubWord(d, b)

RECURSIVE RemLoop(_, _, _, _)
\* Long division of a by a word b > 0, from the top bit down: rem is the
\* remainder of the bits above bit i; it is doubled, takes bit i, and loses
\* b if it has reached it (it has when the doubling carries).
RemLoop(a, b, i, rem) ==
    IF i = 0 THEN rem
    ELSE IF rem[WordBits] = 1
         THEN RemLoop(a, b, i - 1, SubWord(Doubled(rem, a[i]), b))
         ELSE RemLoop(a, b, i - 1, Reduced(Doubled(rem, a[i]), b))

\* a % b on bigints below 2^64
RemWord(a, b) == RemLoop(a, b, WordBits, ZeroWord)

\* The bits of a double's significand.
SignificandBits == 53

\* Number(a) for a bigint a below 2^64, as the integer the double stands
\* for: a itself up to 53 significant bits, and beyond that the nearest
\* multiple of the last kept bit, ties going to the even one.
ToNumber(a) ==
    LET top == IF a = ZeroWord THEN 0
               ELSE CHOOSE i \in 1..WordBits : a[i] = 1 /\ \A j \in (i + 1)..WordBits : a[j] = 0
        k == top - SignificandBits
    IN IF k <= 0 THEN a
       ELSE LET kept == Shl(Shr(a, k), k)
                up == /\ a[k] = 1
                      /\ \/ \E j \in 1..(k - 1) : a[j] = 1
                         \/ a[k + 1] = 1
            IN IF up THEN AddWord(kept, Shl(WordOf(1), k)) ELSE kept

(***************************************************************************)
(* Hexadecimal wire format of a word: "0x" and 16 lower-case digits, most  *)
(* significant first.  A hex string is modelled as its 16 digit values.    *)
(***************************************************************************)
HexDigits == 16

\* toHex(value) losing the lowest digit.
toHexRounded(w) ==
    SubSeq([d \in 1..HexDigits |->
        LET lo == 4 * (HexDigits - d)
        IN IF d = HexDigits THEN 0
           ELSE w[lo + 1] + 2 * w[lo + 2] + 4 * w[lo + 3] + 8 * w[lo + 4]], 1, HexDigits)

\* toHex(value)
toHex(w) ==
    SubSeq([d \in 1..HexDigits |->
        LET lo == 4 * (HexDigits - d)
        IN w[lo + 1] + 2 * w[lo + 2] + 4 * w[lo + 3] + 8 * w[lo + 4]], 1, HexDigits)

\* toUint64(BigInt(hexString))
fromHex(h) ==
    Word([i \in 1..WordBits |->
        LET d == HexDigits - ((i - 1) \div 4)
        IN (h[d] \div Pow2((i - 1) % 4)) % 2])

(***************************************************************************)
(* Xorshift128Plus                                                         *)
(***************************************************************************)
\* A state taken as it is.
Uncorrected(s0, s1) == <<s0, s1>>

\* if (s0 === 0n && s1 === 0n) { s1 = 1n }
Corrected(s0, s1) ==
    IF s0 = ZeroWord /\ s1 = ZeroWord THEN <<s0, WordOf(1)>> ELSE <<s0, s1>>

\* normalizeSeed for a serialized state { algorithm, state: [hex, hex] }:
\* the all-zero state is corrected to (0, 1).
normalizeSeed(seed) == Corrected(fromHex(seed[1]), fromHex(seed[2]))

\* new Xorshift128Plus(seed): the rng is the pair <<state0, state1>>.
NewRng(seed) == Corrected(normalizeSeed(seed)[1], normalizeSeed(seed)[2])

\* Xorshift128Plus.deserialize(serialized)
deserialize(serialized) == NewRng(serialized)

\* serialize() writing the state words in the wrong order.
serializeSwapped(r) == <<toHex(r[2]), toHex(r[1])>>

\* serialize(): the two state words as hex strings.
serialize(r) == <<toHex(r[1]), toHex(r[2])>>

\* nextBigInt(): one xorshift128+ step; returns the value and the new rng.
\* s1 ^= s1 << 23n (masked); s1 ^= s1 >> 17n; s1 ^= s0; s1 ^= s0 >> 26n
Scramble(s1, s0) == Xor(Xor(s1, s0), Shr(s0, 26))

ShiftRight17(s1) == Xor(s1, Shr(s1, 17))

ShiftLeft23(s1) == Xor(s1, Shl(s1, 23))

\* The result of a step whose new state is (s0, s1).
Stepped(s0, s1) == [value |-> AddWord(s1, s0), rng |-> <<s0, s1>>]

nextBigInt(r) == Stepped(r[2], Scramble(ShiftRight17(ShiftLeft23(r[1])), r[2]))

\* threshold = UINT64_MASK - (UINT64_MASK % bound)
Threshold(bound) == MaskMinus(ModWord(UINT64_MASK, bound))

RECURSIVE nextIntLoop(_, _)
\* One drawn value n of nextInt's loop: accepted below the threshold, else
\* the loop draws again.
Sample(n, bound) ==
    IF LessWord(n.value, Threshold(bound))
    THEN [value |-> ModWord(n.value, bound), rng |-> n.rng]
    ELSE nextIntLoop(n.rng, bound)

nextIntLoop(r, bound) == Sample(nextBigInt(r), bound)

\* nextInt(maxExclusive) for a positive integer maxExclusive: rejection
\* sampling; returns the value and the new rng.
nextInt(r, maxExclusive) == nextIntLoop(r, maxExclusive)

\* A number passed to nextInt: its sign, the integer part of its magnitude
\* as a word, and whether it has a fractional part.
Double(negative, whole, fraction) ==
    [negative |-> negative, whole |-> whole, fraction |-> fraction]

RECURSIVE NextIntLoop(_, _, _)
\* while (true) { value = nextBigInt(); if (value < threshold) return value % bound }
NextIntLoop(r, bound, threshold) ==
    LET n == nextBigInt(r)
    IN IF LessWord(n.value, threshold)
       THEN [ok |-> TRUE, error |-> "", value |-> ToNumber(RemWord(n.value, bound)),
             rng |-> n.rng]
       ELSE NextIntLoop(n.rng, bound, threshold)

\* nextInt(maxExclusive) for any number below 2^64: the range error, or the
\* value as a word and the new rng.
NextInt(r, maxExclusive) ==
    IF \/ maxExclusive.fraction
       \/ maxExclusive.negative
       \/ maxExclusive.whole = ZeroWord
    THEN [ok |-> FALSE, error |-> "RangeError", value |-> ZeroWord, rng |-> r]
    ELSE NextIntLoop(r, maxExclusive.whole,
                     SubWord(UINT64_MASK, RemWord(UINT64_MASK, maxExclusive.whole)))

\* A 64-bit literal, from its 16 hex digits.
HexWord(digits) == fromHex([d \in 1..HexDigits |-> digits[d]])

\* One call of the generator made by splitmix64: the new state and the
\* value returned.
splitmix64(state) ==
    LET next == AddWord(state, HexWord(<<9, 14, 3, 7, 7, 9, 11, 9, 7, 15, 4, 10, 7, 12, 1, 5>>))
        z1 == MulWord(Xor(next, Shr(next, 30)),
                      HexWord(<<11, 15, 5, 8, 4, 7, 6, 13, 1, 12, 14, 4, 14, 5, 11, 9>>))
        z2 == MulWord(Xor(z1, Shr(z1, 27)),
                      HexWord(<<9, 4, 13, 0, 4, 9, 11, 11, 1, 3, 3, 1, 1, 1, 14, 11>>))
    IN [state |-> next, value |-> Xor(z2, Shr(z2, 31))]

RECURSIVE hashFrom(_, _, _)
\* hashString's loop from the i-th character code on.
hashFrom(seed, i, hash) ==
    IF i > Len(seed) THEN hash
    ELSE hashFrom(seed, i + 1,
                  MulWord(Xor(hash, WordOf(seed[i])),
                          HexWord(<<0, 0, 0, 0, 0, 1, 0, 0, 0, 0, 0, 0, 0, 1, 11, 3>>)))

\* hashString(seed), the string given by its character codes.
hashString(seed) ==
    hashFrom(seed, 1, HexWord(<<12, 11, 15, 2, 9, 12, 14, 4, 8, 4, 2, 2, 2, 3, 2, 5>>))

\* normalizeSeed(seed) for a bigint: [generator(), generator() || 1n]
SeedFromBigInt(seed) ==
    LET first == splitmix64(seed)
        second == splitmix64(first.state)
    IN <<first.value, IF second.value = ZeroWord THEN WordOf(1) ELSE second.value>>

\* normalizeSeed(seed) for every form of seed: undefined, a number (BigInt
\* throws on one that is not an integer), a bigint, a string, a pair and a
\* serialized state (with its algorithm).  The state, or the error thrown.
NormalizeSeed(seed) ==
    CASE seed.type = "undefined" -> [ok |-> TRUE, state |-> SeedFromBigInt(WordOf(1))]
      [] seed.type = "number" ->
            IF seed.number.fraction THEN [ok |-> FALSE, state |-> <<>>]
            ELSE [ok |-> TRUE,
                  state |-> SeedFromBigInt(IF seed.number.negative
                                           THEN SubWord(ZeroWord, seed.number.whole)
                                           ELSE seed.number.whole)]
      [] seed.type = "bigint" -> [ok |-> TRUE, state |-> SeedFromBigInt(seed.bigint)]
      [] seed.type = "string" -> [ok |-> TRUE, state |-> SeedFromBigInt(hashString(seed.string))]
      [] seed.type = "array" -> [ok |-> TRUE, state |-> Corrected(seed.array[1], seed.array[2])]
      [] seed.type = "serialized" ->
            IF seed.algorithm # "xorshift128+" THEN [ok |-> FALSE, state |-> <<>>]
            ELSE [ok |-> TRUE, state |-> normalizeSeed(seed.state)]

\* new Xorshift128Plus(seed) for every form of seed.
Xorshift128Plus(seed) ==
    LET s == NormalizeSeed(seed)
    IN IF s.ok THEN [ok |-> TRUE, state |-> Corrected(s.state[1], s.state[2])] ELSE s

(***************************************************************************)
(* Formula language: values and compiled expressions.                      *)
(*                                                                         *)
(* A MiniValue is a number, a boolean or null; a thrown                    *)
(* MiniExprEvaluationError is the value tagged "error" carrying its        *)
(* message.  AST nodes are records with the field names of the source.     *)
(*                                                                         *)
(* A number is an integer, or one of the three non-finite doubles: the     *)
(* integers of a game stay far below Infinity's stand-in.                  *)
(***************************************************************************)
\* Number.POSITIVE_INFINITY, Number.NEGATIVE_INFINITY and NaN.
Infinity == Pow2(30)

NegInfinity == -Infinity

NaN == Infinity + 1

\* Number.isFinite(x)
IsFinite(x) == x # NaN /\ NegInfinity < x /\ x < Infinity

\* a + b on doubles.
NumAdd(a, b) ==
    CASE a = NaN \/ b = NaN -> NaN
      [] IsFinite(a) /\ IsFinite(b) -> a + b
      [] IsFinite(a) -> b
      [] IsFinite(b) -> a
      [] a = b -> a
      [] OTHER -> NaN

\* a - b on doubles.
NumSub(a, b) == NumAdd(a, IF b = NaN THEN NaN ELSE -b)

\* a < b and a > b on doubles: false when either is NaN.
NumLess(a, b) == a # NaN /\ b # NaN /\ a < b

NumGreater(a, b) == NumLess(b, a)

\* The exponent from which a power of a base of magnitude 2 or more
\* overflows a double.
DoubleMaxExponent == 1024

RECURSIVE IntPow(_, _)
IntPow(l, r) == IF r = 0 THEN 1 ELSE l * IntPow(l, r - 1)

\* left ** right for a finite integer base and a non-negative integer
\* exponent.  Powers that neither overflow nor stay small are not used.
Pow(l, r) ==
    CASE r = 0 -> 1
      [] l \in {0, 1} -> l
      [] l = -1 -> IF r % 2 = 0 THEN 1 ELSE -1
      [] r >= DoubleMaxExponent -> IF l < 0 /\ r % 2 = 1 THEN NegInfinity ELSE Infinity
      [] r <= 9 /\ -8 <= l /\ l <= 8 -> IntPow(l, r)

NumV(n) == [t |-> "number", v |-> n]

BoolV(b) == [t |-> "boolean", v |-> b]

NullV == [t |-> "null", v |-> "null"]

ErrV(message) == [t |-> "error", v |-> message]

IsErr(x) == x.t = "error"

Num(n) == [type |-> "NumberLiteral", value |-> n]

Bool(b) == [type |-> "BooleanLiteral", value |-> b]

Null == [type |-> "NullLiteral"]

Id(name) == [type |-> "Identifier", name |-> name]

Unary(operator, argument) ==
    [type |-> "UnaryExpression", operator |-> operator, argument |-> argument]

Binary(left, operator, right) ==
    [type |-> "BinaryExpression", operator |-> operator, left |-> left, right |-> right]

\* JavaScript truthiness of a MiniValue: if (left), Boolean(right).
TruthyAlways(x) == TRUE

Truthy(x) ==
    CASE x.t = "number" -> x.v # 0 /\ x.v # NaN
      [] x.t = "boolean" -> x.v
      [] OTHER -> FALSE

\* left === right: same type and same value.
StrictEquals(x, y) ==
    IF x.t # y.t THEN FALSE
    ELSE IF x.t = "number" /\ x.v = NaN THEN FALSE
    ELSE x.v = y.v

\* asNumber(value, message)
asNumber(x, message) == IF x.t = "number" /\ IsFinite(x.v) THEN x ELSE ErrV(message)

\* asBoolean(value, message)
asBoolean(x, message) == IF x.t = "boolean" THEN x ELSE ErrV(message)

\* JavaScript's remainder: the sign of the result is the sign of the dividend.
JsRem(l, r) ==
    LET al == IF l < 0 THEN -l ELSE l
        ar == IF r < 0 THEN -r ELSE r
    IN IF l < 0 THEN -(al % ar) ELSE al % ar

\* l / r for r # 0 when the quotient is an integer: the numbers of the model
\* are integers, and no other quotient is taken in it.
Quotient(l, r) ==
    LET al == IF l < 0 THEN -l ELSE l
        ar == IF r < 0 THEN -r ELSE r
    IN CASE al % ar = 0 -> IF (l < 0) = (r < 0) THEN al \div ar ELSE -(al \div ar)

\* left / right without the check of the divisor.
DivideUnchecked(l, r) ==
    IF r = 0
    THEN NumV(IF l = 0 THEN NaN ELSE IF l > 0 THEN Infinity ELSE NegInfinity)
    ELSE NumV(Quotient(l, r))

\* if (right === 0) throw new MiniExprEvaluationError('Division by zero');
\* return left / right
Divide(l, r) == IF r = 0 THEN ErrV("Division by zero") ELSE NumV(Quotient(l, r))

NumericOperators == {"<", "<=", ">", ">=", "+", "-", "*", "/", "%", "^"}

OperandMessage(operator) ==
    CASE operator \in {"<", "<=", ">", ">="} -> "Comparison operands must be numbers"
      [] operator = "+" -> "Addition operands must be numbers"
      [] operator = "-" -> "Subtraction operands must be numbers"
      [] operator = "*" -> "Multiplication operands must be numbers"
      [] operator = "/" -> "Division operands must be numbers"
      [] operator = "%" -> "Modulo operands must be numbers"
      [] operator = "^" -> "Exponentiation operands must be numbers"

\* The operator applied to two finite numbers.
ApplyNumeric(operator, l, r) ==
    CASE operator = "<" -> BoolV(l < r)
      [] operator = "<=" -> BoolV(l <= r)
      [] operator = ">" -> BoolV(l > r)
      [] operator = ">=" -> BoolV(l >= r)
      [] operator = "+" -> NumV(l + r)
      [] operator = "-" -> NumV(l - r)
      [] operator = "*" -> NumV(l * r)
      [] operator = "/" -> Divide(l, r)
      [] operator = "%" -> IF r = 0 THEN ErrV("Modulo by zero") ELSE NumV(JsRem(l, r))
      [] operator = "^" -> NumV(Pow(l, r))

RECURSIVE evaluateNode(_, _)
\* evaluateExpression's tree walk; variables maps names to MiniValues.  The
\* left operand is evaluated and checked before the right one is evaluated.
evaluateNode(node, variables) ==
    CASE node.type = "NumberLiteral" -> NumV(node.value)
      [] node.type = "BooleanLiteral" -> BoolV(node.value)
      [] node.type = "NullLiteral" -> NullV
      [] node.type = "Identifier" ->
            IF node.name \in DOMAIN variables
            THEN variables[node.name]
            ELSE ErrV("Unknown identifier")
      [] node.type = "UnaryExpression" ->
            LET argument == evaluateNode(node.argument, variables)
            IN IF IsErr(argument) THEN argument
               ELSE IF node.operator = "!"
               THEN LET b == asBoolean(argument, "Logical not expects a boolean operand")
                    IN IF IsErr(b) THEN b ELSE BoolV(~b.v)
               ELSE LET n == asNumber(argument, "Unary minus expects a numeric operand")
                    IN IF IsErr(n) THEN n ELSE NumV(-n.v)
      [] node.type = "BinaryExpression" ->
            LET left == evaluateNode(node.left, variables)
                right == evaluateNode(node.right, variables)
            IN CASE IsErr(left) -> left
                 [] node.operator = "||" ->
                       IF Truthy(left) THEN BoolV(TRUE)
                       ELSE IF IsErr(right) THEN right ELSE BoolV(Truthy(right))
                 [] node.operator = "&&" ->
                       IF ~Truthy(left) THEN BoolV(FALSE)
                       ELSE IF IsErr(right) THEN right ELSE BoolV(Truthy(right))
                 [] node.operator = "==" ->
                       IF IsErr(right) THEN right ELSE BoolV(StrictEquals(left, right))
                 [] node.operator = "!=" ->
                       IF IsErr(right) THEN right ELSE BoolV(~StrictEquals(left, right))
                 [] node.operator \in NumericOperators ->
                       LET l == asNumber(left, OperandMessage(node.operator))
                           r == asNumber(right, OperandMessage(node.operator))
                       IN IF IsErr(l) THEN l
                          ELSE IF IsErr(right) THEN right
                          ELSE IF IsErr(r) THEN r
                          ELSE ApplyNumeric(node.operator, l.v, r.v)

\* evaluateExpression(compiled, { variables })
evaluateExpression(compiled, variables) == evaluateNode(compiled, variables)

(***************************************************************************)
(* The formula parser.  A source is given as the sequence of its tokens    *)
(* (a number token carries its value); tokenize ends it with the eof       *)
(* token.  A parse function returns the node and the position of the next  *)
(* token, or the syntax error thrown.                                      *)
(***************************************************************************)
NumberToken(n) == [type |-> "number", number |-> n]

Token(type, value) == [type |-> type, value |-> value]

tokenize(source) == Append(source, Token("eof", ""))

Parsed(node, current) == [ok |-> TRUE, node |-> node, current |-> current]

SyntaxError(message) == [ok |-> FALSE, error |-> "MiniExprSyntaxError", message |-> message]

\* token.type === type && token.value === value
IsToken(token, type, value) == token.type = type /\ token.value = value

\* The operators of parseLogicalOr, parseLogicalAnd, parseEquality,
\* parseComparison, parseAdditive, parseMultiplicative and parseExponent,
\* with parseAdditive and parseMultiplicative exchanged.
LevelsExchanged ==
    <<{"||"}, {"&&"}, {"==", "!="}, {"<", "<=", ">", ">="},
      {"*", "/", "%"}, {"+", "-"}, {"^"}>>

\* The operators of parseLogicalOr, parseLogicalAnd, parseEquality,
\* parseComparison, parseAdditive, parseMultiplicative and parseExponent:
\* each function parses its operands with the next one, and parseExponent
\* with parseUnary.
Levels ==
    <<{"||"}, {"&&"}, {"==", "!="}, {"<", "<=", ">", ">="},
      {"+", "-"}, {"*", "/", "%"}, {"^"}>>

\* A right operand parsed by the function of the operator itself.
RightOperandSame(level) == level

\* The right operand of an operator is parsed by the same function as the
\* left one: the next level.
RightOperand(level) == level + 1

RECURSIVE parseLevel(_, _, _), parseLoop(_, _, _), parseUnary(_, _), parsePrimary(_, _),
          parseArguments(_, _, _)
\* The binary parse function of a level: its first operand, then its loop.
parseLevel(tokens, current, level) ==
    IF level > Len(Levels) THEN parseUnary(tokens, current)
    ELSE parseLoop(tokens, parseLevel(tokens, current, level + 1), level)

\* while (the next token is an operator of the level) { expr = { left: expr,
\* right: the next operand } }
parseLoop(tokens, expr, level) ==
    IF ~expr.ok THEN expr
    ELSE IF /\ tokens[expr.current].type = "operator"
            /\ tokens[expr.current].value \in Levels[level]
    THEN LET right == parseLevel(tokens, expr.current + 1, RightOperand(level))
         IN IF ~right.ok THEN right
            ELSE parseLoop(tokens,
                           Parsed(Binary(expr.node, tokens[expr.current].value, right.node),
                                  right.current),
                           level)
    ELSE expr

parseUnary(tokens, current) ==
    IF IsToken(tokens[current], "operator", "!") \/ IsToken(tokens[current], "operator", "-")
    THEN LET argument == parseUnary(tokens, current + 1)
         IN IF ~argument.ok THEN argument
            ELSE Parsed(Unary(tokens[current].value, argument.node), argument.current)
    ELSE parsePrimary(tokens, current)

\* do { args.push(parseExpressionInner()) } while (match('comma'))
parseArguments(tokens, current, args) ==
    LET arg == parseLevel(tokens, current, 1)
    IN IF ~arg.ok THEN arg
       ELSE IF tokens[arg.current].type = "comma"
       THEN parseArguments(tokens, arg.current + 1, Append(args, arg.node))
       ELSE Parsed(Append(args, arg.node), arg.current)

parsePrimary(tokens, current) ==
    LET token == tokens[current]
    IN CASE token.type = "number" -> Parsed(Num(token.number), current + 1)
         [] token.type = "identifier" ->
               CASE token.value = "true" -> Parsed(Bool(TRUE), current + 1)
                 [] token.value = "false" -> Parsed(Bool(FALSE), current + 1)
                 [] token.value = "null" -> Parsed(Null, current + 1)
                 [] OTHER ->
                       IF ~IsToken(tokens[current + 1], "paren", "(")
                       THEN Parsed(Id(token.value), current + 1)
                       ELSE LET args == IF IsToken(tokens[current + 2], "paren", ")")
                                        THEN Parsed(<<>>, current + 2)
                                        ELSE parseArguments(tokens, current + 2, <<>>)
                            IN IF ~args.ok THEN args
                               ELSE IF ~IsToken(tokens[args.current], "paren", ")")
                               THEN SyntaxError("Expected closing parenthesis")
                               ELSE Parsed([type |-> "CallExpression",
                                            callee |-> Id(token.value),
                                            arguments |-> args.node],
                                           args.current + 1)
         [] token.type = "paren" ->
               IF token.value # "(" THEN SyntaxError("Unexpected token")
               ELSE LET expr == parseLevel(tokens, current + 1, 1)
                    IN IF ~expr.ok THEN expr
                       ELSE IF IsToken(tokens[expr.current], "paren", ")")
                       THEN Parsed(expr.node, expr.current + 1)
                       ELSE SyntaxError("Expected closing parenthesis")
         [] OTHER -> SyntaxError("Unexpected token")

\* parseExpression(source): the AST, or the syntax error.
parseExpression(source) ==
    LET expr == parseLevel(tokenize(source), 1, 1)
    IN IF ~expr.ok THEN expr
       ELSE IF tokenize(source)[expr.current].type # "eof"
       THEN SyntaxError("Unexpected input after expression")
       ELSE expr

(***************************************************************************)
(* Templates.  A compiled template holds, for every expression, its AST.   *)
(* An optional field (min, max, conditionAst) is None when absent; an      *)
(* absent clamp is FALSE.                                                  *)
(***************************************************************************)
Resource(id, initial, min, max) == [id |-> id, initial |-> initial, min |-> min, max |-> max]

Dice(id, sides, count) == [id |-> id, sides |-> sides, count |-> count]

Effect(resource, ast, clamp) == [resource |-> resource, ast |-> ast, clamp |-> clamp]

Action(id, priority, conditionAst, effects) ==
    [id |-> id, priority |-> priority, conditionAst |-> conditionAst, effects |-> effects]

TurnLimitCondition(limit) == [type |-> "turnLimit", limit |-> limit]

ResourceThreshold(resource, comparison, value) ==
    [type |-> "resourceThreshold", resource |-> resource,
     comparison |-> comparison, value |-> value]

\* Number of turns after which the templates' turnLimit condition ends a game.
TurnLimit == 2

\* Two bounded resources and actions whose effects clamp, overflow, underflow
\* and read the resources updated by earlier effects.
MinersTemplate ==
    [id |-> "miners",
     version |-> "1.0.0",
     resources |-> <<Resource("ore", 0, Some(0), Some(5)),
                     Resource("crystal", 0, None, None)>>,
     dice |-> <<Dice("d3", 3, 2)>>,
     actions |->
        <<Action("surge", 1, None,
                 <<Effect("ore", Num(1), TRUE),
                   Effect("ore", Id("roll_total"), TRUE),
                   Effect("crystal", Id("ore"), FALSE)>>),
          Action("refine", 2, Some(Binary(Id("ore"), ">=", Num(2))),
                 <<Effect("ore", Unary("-", Num(2)), FALSE),
                   Effect("crystal", Id("ore"), FALSE)>>),
          Action("overload", 0, Some(Binary(Id("turn"), ">=", Num(2))),
                 <<Effect("crystal", Num(1), FALSE),
                   Effect("ore", Binary(Id("roll_high"), "+", Num(3)), FALSE)>>),
          Action("vent", 2, None,
                 <<Effect("crystal", Num(1), FALSE),
                   Effect("ore", Unary("-", Id("roll_low")), FALSE)>>)>>,
     endConditions |-> <<TurnLimitCondition(TurnLimit),
                         ResourceThreshold("crystal", ">=", 6)>>,
     scoring |-> Binary(Id("ore"), "+", Binary(Id("crystal"), "*", Num(2)))]

\* After the template of the test 'prevents resource totals from dropping
\* below minimums': energy to spend, and two defective actions.
NegativeTemplate ==
    [id |-> "test-negative",
     version |-> "1.0.0",
     resources |-> <<Resource("energy", 2, Some(0), None)>>,
     dice |-> <<Dice("die", 6, 1)>>,
     actions |->
        <<Action("spend", 1, Some(Binary(Id("roll_total"), ">=", Num(0))),
                 <<Effect("energy", Unary("-", Num(1)), FALSE)>>),
          Action("broken", 0, None,
                 <<Effect("energy", Num(1), FALSE),
                   Effect("energy", Id("missing"), FALSE)>>),
          Action("flag", 0, Some(Binary(Id("roll_total"), ">", Num(3))),
                 <<Effect("energy", Binary(Id("energy"), ">", Num(0)), FALSE)>>)>>,
     endConditions |-> <<TurnLimitCondition(TurnLimit)>>,
     scoring |-> Id("energy")]

\* A template whose scoring expression reads an unknown identifier.
UnscorableTemplate ==
    [id |-> "unscorable",
     version |-> "1.0.0",
     resources |-> <<Resource("points", 0, None, None)>>,
     dice |-> <<Dice("coin", 2, 1)>>,
     actions |->
        <<Action("gain", 1, None, <<Effect("points", Id("roll_total"), FALSE)>>)>>,
     endConditions |-> <<ResourceThreshold("points", ">", 2),
                         TurnLimitCondition(TurnLimit)>>,
     scoring |-> Binary(Id("points"), "+", Id("bonus"))]

\* A template with an action whose condition is a number, not a boolean.
UncheckableTemplate ==
    [id |-> "uncheckable",
     version |-> "1.0.0",
     resources |-> <<Resource("points", 0, None, None)>>,
     dice |-> <<Dice("coin", 2, 1)>>,
     actions |->
        <<Action("gain", 1, None, <<Effect("points", Num(1), FALSE)>>),
          Action("odd", 1, Some(Id("roll_total")), <<Effect("points", Num(2), FALSE)>>)>>,
     endConditions |-> <<TurnLimitCondition(TurnLimit)>>,
     scoring |-> Id("points")]

\* A template whose effect expressions overflow: 10 ^ 2000 is Infinity and
\* (0 - 10) ^ 2001 is -Infinity.
OverflowTemplate ==
    [id |-> "overflow",
     version |-> "1.0.0",
     resources |-> <<Resource("heat", 0, Some(0), None)>>,
     dice |-> <<Dice("coin", 2, 1)>>,
     actions |->
        <<Action("warm", 1, None, <<Effect("heat", Num(1), FALSE)>>),
          Action("flash", 0, None,
                 <<Effect("heat", Binary(Num(10), "^", Num(2000)), FALSE),
                   Effect("heat",
                          Binary(Binary(Num(0), "-", Num(10)), "^", Num(2001)),
                          FALSE)>>)>>,
     endConditions |-> <<TurnLimitCondition(TurnLimit)>>,
     scoring |-> Id("heat")]

\* One unbounded resource, one always-available action that adds the roll
\* total to it, the resource as the score and the turn limit as the only end
\* condition.
TallyTemplate ==
    [id |-> "tally",
     version |-> "1.0.0",
     resources |-> <<Resource("ore", 0, None, None)>>,
     dice |-> <<Dice("d6", 6, 2)>>,
     actions |->
        <<Action("mine", 1, None, <<Effect("ore", Id("roll_total"), FALSE)>>)>>,
     endConditions |-> <<TurnLimitCondition(TurnLimit)>>,
     scoring |-> Id("ore")]

\* A template whose only action is not available in the first turn.
IdleTemplate ==
    [id |-> "idle",
     version |-> "1.0.0",
     resources |-> <<Resource("points", 0, None, None)>>,
     dice |-> <<Dice("coin", 2, 1)>>,
     actions |->
        <<Action("wait", 1, Some(Binary(Id("turn"), ">=", Num(2))),
                 <<Effect("points", Num(1), FALSE)>>)>>,
     endConditions |-> <<TurnLimitCondition(TurnLimit)>>,
     scoring |-> Id("points")]

\* Four resources, each under an end condition of its own comparison, and
\* one action per resource that moves it by the roll; the score reads a
\* resource, the turn and the roll.
ThresholdTemplate ==
    [id |-> "thresholds",
     version |-> "1.0.0",
     resources |-> <<Resource("cash", 1, None, None),
                     Resource("stock", 1, None, None),
                     Resource("gems", 1, None, None),
                     Resource("luck", 1, None, None)>>,
     dice |-> <<Dice("coin", 2, 1)>>,
     actions |->
        <<Action("spend", 0, None,
                 <<Effect("cash", Unary("-", Id("roll_total")), FALSE)>>),
          Action("sell", 1, None,
                 <<Effect("stock", Unary("-", Id("roll_total")), FALSE)>>),
          Action("dig", 2, None,
                 <<Effect("gems", Id("roll_total"), FALSE)>>),
          Action("pray", 3, None,
                 <<Effect("luck", Binary(Id("roll_total"), "-", Num(1)), FALSE)>>)>>,
     endConditions |-> <<ResourceThreshold("cash", "<", 0),
                         ResourceThreshold("stock", "<=", 0),
                         ResourceThreshold("gems", "==", 3),
                         ResourceThreshold("luck", "!=", 1),
                         TurnLimitCondition(TurnLimit)>>,
     scoring |-> Binary(Binary(Id("gems"), "+", Binary(Id("turn"), "*", Num(10))),
                        "+", Id("roll_total"))]

Templates ==
    {MinersTemplate, NegativeTemplate, UnscorableTemplate, UncheckableTemplate,
     OverflowTemplate, TallyTemplate, IdleTemplate, ThresholdTemplate}

\* Serialized RNG states given as seeds; the all-zero state is among them.
SeedOf(s0, s1) == <<toHex(WordOf(s0)), toHex(WordOf(s1))>>

Seeds == {SeedOf(0, 0), SeedOf(1, 2), SeedOf(42, 1337)}

\* template.resourceMap[id]
ResourceIds(t) == {t.resources[i].id : i \in 1..Len(t.resources)}

resourceMap(t, id) == t.resources[CHOOSE i \in 1..Len(t.resources) : t.resources[i].id = id]

ActionIds(t) == {t.actions[i].id : i \in 1..Len(t.actions)}

(***************************************************************************)
(* State.                                                                  *)
(***************************************************************************)
VARIABLES
    template,           \* the compiled template given to the program
    seed,               \* options.seed
    program,            \* who drives the session: "manual", "autoplay", "simulate"
    \* GameSession
    rng,                \* Xorshift128Plus (state0, state1); None before construction
    initialSeed,        \* serialized rng state captured by the constructor
    phase,              \* _phase
    turn,               \* _turn
    resources,          \* resource id -> value
    history,            \* the event log
    rollResult,         \* None or Some(RollResult)
    chosenAction,       \* None or Some(CompiledAction)
    replayTurns,        \* ReplayTurn[]
    currentReplayTurn,  \* None or Some(Partial<ReplayTurn>)
    finalScore,         \* None (null) or Some(number)
    timestampCounter,
    lastCall,           \* the latest call of a public operation and its outcome
    \* autoplay
    policy,             \* the decision policy
    pc,                 \* "start", "running", "returned", "failed"
    returned,           \* the ReplayRecords returned by the autoplay calls so far
    policyCalls,        \* invocations of the policy in the current autoplay call
    \* simulateSession
    record,             \* None or Some(the ReplayRecord being replayed)
    commands,
    pointer,
    index,
    simError,           \* None or Some(message)
    simResult,          \* None or Some(SimulationResult)
    \* a function called on its own
    input,              \* the arguments
    output              \* None, or what the calls made so far returned

inputVars == <<template, seed, program>>

sessionVars == <<rng, initialSeed, phase, turn, resources, history, rollResult,
                 chosenAction, replayTurns, currentReplayTurn, finalScore,
                 timestampCounter>>

autoplayVars == <<policy, pc, returned, policyCalls>>

simulateVars == <<record, commands, pointer, index, simError, simResult>>

callVars == <<input, output>>

vars == <<inputVars, sessionVars, lastCall, autoplayVars, simulateVars, callVars>>

(***************************************************************************)
(* GameSession                                                             *)
(***************************************************************************)
\* The outcome of a call: it returned a value, or it threw an error.
Returned(op, value) == [op |-> op, result |-> "ok", error |-> "", value |-> value]

Thrown(op, error) == [op |-> op, result |-> "throw", error |-> error, value |-> None]

\* A call that throws before any assignment.
Throw(op, error) == lastCall' = Thrown(op, error) /\ UNCHANGED sessionVars

\* nextTimestamp() returning the counter without advancing it.
nextTimestampRepeated(counter) == counter

\* nextTimestamp(): the counter after the call, which is also the value returned.
nextTimestamp(counter) == counter + 1

\* cloneResources(resources)
cloneResources(r) == [k \in DOMAIN r |-> r[k]]

\* The map f with key k set to value x (assignment to an object's property).
Put(f, k, x) == [j \in DOMAIN f \cup {k} |-> IF j = k THEN x ELSE f[j]]

\* A generator shared by the sessions: seeded by the first, kept by the next.
SessionRngShared(s) == IF rng = None THEN NewRng(s) ELSE rng

\* The constructor seeding a simulation after the first with another seed than
\* the one it is given.
SessionRngReseeded(s) ==
    IF simResult = None THEN NewRng(s) ELSE NewRng(CHOOSE x \in Seeds : x # s)

\* new Xorshift128Plus(options.seed) in the constructor.
SessionRng(s) == NewRng(s)

\* The fields of an object not yet constructed: the declared initializers.
Unconstructed ==
    /\ rng = None
    /\ initialSeed = None
    /\ phase = "setup"
    /\ turn = 1
    /\ resources = <<>>
    /\ history = <<>>
    /\ rollResult = None
    /\ chosenAction = None
    /\ replayTurns = <<>>
    /\ currentReplayTurn = None
    /\ finalScore = None
    /\ timestampCounter = 0

\* new GameSession(template, { seed }): a new object, its fields after the
\* declared initializers and the constructor body.
Construct(t, s) ==
    LET initial == [id \in ResourceIds(t) |-> resourceMap(t, id).initial]
    IN /\ rng' = SessionRng(s)
       /\ initialSeed' = serialize(rng')
       /\ resources' = initial
       /\ timestampCounter' = nextTimestamp(0)
       /\ history' = <<[type |-> "setup", phase |-> "setup", turn |-> 0,
                        resources |-> cloneResources(initial),
                        timestamp |-> timestampCounter']>>
       /\ phase' = "roll"
       /\ turn' = 1
       /\ rollResult' = None
       /\ chosenAction' = None
       /\ replayTurns' = <<>>
       /\ currentReplayTurn' = None
       /\ finalScore' = None
       /\ lastCall' = Returned("new", None)

\* ensurePhase without its check.
ensurePhaseUnchecked(expected) == TRUE

\* ensurePhase letting endTurn() through while the action is still to be applied.
ensurePhaseEarly(expected) == phase = expected \/ (expected = "end" /\ phase = "apply")

\* ensurePhase letting roll() through once the game is complete.
ensurePhaseAfterComplete(expected) ==
    phase = expected \/ (expected = "roll" /\ phase = "complete")

\* ensurePhase letting choose() through while the chosen action is still to
\* be applied.
ensurePhaseRechoose(expected) == phase = expected \/ (expected = "choose" /\ phase = "apply")

\* ensurePhase(expected) passes.
ensurePhase(expected) == phase = expected

\* Math.max(...values), Math.min(...values), values.reduce(sum)
Highest(values) == CHOOSE x \in {values[i] : i \in 1..Len(values)} :
                      \A i \in 1..Len(values) : values[i] <= x

Lowest(values) == CHOOSE x \in {values[i] : i \in 1..Len(values)} :
                      \A i \in 1..Len(values) : x <= values[i]

RECURSIVE Sum(_)
Sum(values) == IF values = <<>> THEN 0 ELSE Head(values) + Sum(Tail(values))

\* The draws so far: a value pushed ahead of the remaining draws.
Drawn(value, rest) == [values |-> <<value>> \o rest.values, rng |-> rest.rng]

RECURSIVE DrawValues(_, _, _)
\* The draw pushed as nextInt returned it, from 0.
PushedRaw(d, sides, count) == Drawn(d.value, DrawValues(d.rng, sides, count - 1))

\* values.push(d.value + 1) for the draw d, then the remaining draws from d.rng.
Pushed(d, sides, count) == Drawn(d.value + 1, DrawValues(d.rng, sides, count - 1))

\* The loop of roll() on an rng that the turn before has stepped once when
\* an action other than the first of the template was chosen in it, as by
\* an effect drawing from the session's rng.
DrawValuesAfterEffects(r, sides, count) ==
    IF count = 0 THEN [values |-> <<>>, rng |-> r]
    ELSE IF /\ count = template.dice[1].count
            /\ replayTurns # <<>>
            /\ replayTurns[Len(replayTurns)].actionId # template.actions[1].id
         THEN Pushed(nextInt(nextBigInt(r).rng, sides), sides, count)
         ELSE Pushed(nextInt(r, sides), sides, count)

\* The loop of roll(): count draws of nextInt(sides) + 1, in order.
DrawValues(r, sides, count) ==
    IF count = 0 THEN [values |-> <<>>, rng |-> r]
    ELSE Pushed(nextInt(r, sides), sides, count)

\* The RollResult of the drawn values.
RollResult(diceId, values) ==
    [diceId |-> diceId,
     values |-> values,
     total |-> Sum(values),
     highest |-> Highest(values),
     lowest |-> Lowest(values)]

\* roll()
roll ==
    IF ~ensurePhase("roll") THEN Throw("roll", "PhaseMismatch")
    ELSE \E drawn \in {DrawValues(rng, template.dice[1].sides, template.dice[1].count)} :
         \E result \in {RollResult(template.dice[1].id, drawn.values)} :
            /\ rng' = drawn.rng
            /\ rollResult' = Some(result)
            /\ phase' = "choose"
            /\ currentReplayTurn' =
                  Some([turn |-> Some(turn), roll |-> Some(result),
                        actionId |-> None, resources |-> None])
            /\ timestampCounter' = nextTimestamp(timestampCounter)
            /\ history' = Append(history,
                                 [type |-> "roll", phase |-> "roll", turn |-> turn,
                                  roll |-> result, timestamp |-> timestampCounter'])
            /\ UNCHANGED <<initialSeed, turn, resources, chosenAction, replayTurns,
                           finalScore>>
            /\ lastCall' = Returned("roll", Some(result))

RollVariableNames == <<"roll_1", "roll_2", "roll_3">>

\* createVariables(): turn, then every resource, then the roll variables;
\* a later entry replaces an earlier one of the same name.
createVariables ==
    LET base == [k \in {"turn"} |-> NumV(turn)]
        withResources ==
            [k \in DOMAIN base \cup DOMAIN resources |->
                IF k \in DOMAIN resources THEN NumV(resources[k]) ELSE base[k]]
        r == Get(rollResult)
        rollNames == {"roll_total", "roll_high", "roll_low"}
                     \cup {RollVariableNames[i] : i \in 1..Len(r.values)}
        rollValue(k) ==
            CASE k = "roll_total" -> r.total
              [] k = "roll_high" -> r.highest
              [] k = "roll_low" -> r.lowest
              [] OTHER -> r.values[CHOOSE i \in 1..Len(r.values) : RollVariableNames[i] = k]
    IN IF IsSome(rollResult)
       THEN [k \in DOMAIN withResources \cup rollNames |->
                IF k \in rollNames THEN NumV(rollValue(k)) ELSE withResources[k]]
       ELSE withResources

\* The outcome of evaluating one action's condition in listAvailableActions.
ConditionValue(action) == evaluateExpression(Get(action.conditionAst), createVariables)

\* listAvailableActions() without its early return: the conditions are
\* evaluated also while no roll is held.
listAvailableActionsUnrolled ==
    LET actions == template.actions
        bad == {i \in 1..Len(actions) :
                   /\ IsSome(actions[i].conditionAst)
                   /\ ConditionValue(actions[i]).t # "boolean"}
        available(action) ==
            \/ ~IsSome(action.conditionAst)
            \/ ConditionValue(action).v
    IN IF bad # {}
       THEN [ok |-> FALSE, actions |-> <<>>, error |-> "MiniExprEvaluationError"]
       ELSE [ok |-> TRUE, actions |-> SelectSeq(actions, available), error |-> ""]

\* Conditions coerced to booleans: a non-boolean result is tested for
\* truthiness, and nothing is thrown.
listAvailableActionsCoerced ==
    IF ~IsSome(rollResult) THEN [ok |-> TRUE, actions |-> <<>>, error |-> ""]
    ELSE LET coerced(action) ==
                 \/ ~IsSome(action.conditionAst)
                 \/ Truthy(ConditionValue(action))
         IN [ok |-> TRUE, actions |-> SelectSeq(template.actions, coerced), error |-> ""]

\* listAvailableActions(): the available actions in template order, or the
\* error thrown at the first condition that fails or is not a boolean.
listAvailableActions ==
    IF ~IsSome(rollResult) THEN [ok |-> TRUE, actions |-> <<>>, error |-> ""]
    ELSE LET actions == template.actions
             bad == {i \in 1..Len(actions) :
                        /\ IsSome(actions[i].conditionAst)
                        /\ ConditionValue(actions[i]).t # "boolean"}
             available(action) ==
                 \/ ~IsSome(action.conditionAst)
                 \/ ConditionValue(action).v
         IN IF bad # {}
            THEN [ok |-> FALSE, actions |-> <<>>, error |-> "MiniExprEvaluationError"]
            ELSE [ok |-> TRUE, actions |-> SelectSeq(actions, available), error |-> ""]

\* A search of the whole template, not of the available actions given.
FindInTemplate(actions, actionId) ==
    LET hits == {i \in 1..Len(template.actions) : template.actions[i].id = actionId}
    IN IF hits = {} THEN None
       ELSE Some(template.actions[CHOOSE i \in hits : \A j \in hits : i <= j])

\* actions.find((candidate) => candidate.id === actionId)
Find(actions, actionId) ==
    LET hits == {i \in 1..Len(actions) : actions[i].id = actionId}
    IN IF hits = {} THEN None
       ELSE Some(actions[CHOOSE i \in hits : \A j \in hits : i <= j])

\* choose(actionId)
choose(actionId) ==
    IF ~ensurePhase("choose") THEN Throw("choose", "PhaseMismatch")
    ELSE LET listed == listAvailableActions
             found == Find(listed.actions, actionId)
         IN IF ~listed.ok THEN Throw("choose", listed.error)
            ELSE IF ~IsSome(found) THEN Throw("choose", "ActionNotAvailable")
            ELSE LET action == Get(found)
                 IN /\ chosenAction' = Some(action)
                    /\ phase' = "apply"
                    /\ currentReplayTurn' =
                          IF IsSome(currentReplayTurn)
                          THEN Some([Get(currentReplayTurn) EXCEPT !.actionId = Some(action.id)])
                          ELSE currentReplayTurn
                    /\ timestampCounter' = nextTimestamp(timestampCounter)
                    /\ history' = Append(history,
                                         [type |-> "choose", phase |-> "choose",
                                          turn |-> turn, actionId |-> action.id,
                                          timestamp |-> timestampCounter'])
                    /\ UNCHANGED <<rng, initialSeed, turn, resources, rollResult,
                                   replayTurns, finalScore>>
                    /\ lastCall' = Returned("choose", Some(action))

\* The state of applyChosenAction's loop: the scratch copy of the resources,
\* the deltas, the variables of the effect expressions, and the error thrown.
EffectState(resulting, deltas, variables, error) ==
    [resulting |-> resulting, deltas |-> deltas, variables |-> variables, error |-> error]

\* A clamped update that stores the capped delta as the resource's value.
ClampToDelta(st, resource, previous, max) ==
    EffectState(Put(st.resulting, resource, NumSub(max, previous)),
                Put(st.deltas, resource, NumSub(max, previous)),
                Put(st.variables, resource, NumV(NumSub(max, previous))),
                "")

\* The clamped update: the delta is capped and the resource and its
\* variable are set to the maximum.
ClampToMaximum(st, resource, previous, max) ==
    EffectState(Put(st.resulting, resource, max),
                Put(st.deltas, resource, NumSub(max, previous)),
                Put(st.variables, resource, NumV(max)),
                "")

\* A plain update that leaves the variables of the later effects as they were.
AccumulateStale(st, resource, value, updated) ==
    EffectState(Put(st.resulting, resource, updated),
                Put(st.deltas, resource,
                    NumAdd(IF resource \in DOMAIN st.deltas THEN st.deltas[resource] ELSE 0,
                           value)),
                st.variables,
                "")

\* The plain update: the delta is accumulated and the resource and its
\* variable are set to the updated value.
Accumulate(st, resource, value, updated) ==
    EffectState(Put(st.resulting, resource, updated),
                Put(st.deltas, resource,
                    NumAdd(IF resource \in DOMAIN st.deltas THEN st.deltas[resource] ELSE 0,
                           value)),
                Put(st.variables, resource, NumV(updated)),
                "")

\* The bounds checks of one effect whose value is a number, for a resource
\* the template defines.
CheckBounds(st, effect, value, definition, previous, updated) ==
    IF IsSome(definition.min) /\ NumLess(updated, Get(definition.min))
    THEN [st EXCEPT !.error = "BelowMinimum"]
    ELSE IF IsSome(definition.max) /\ NumGreater(updated, Get(definition.max))
    THEN IF effect.clamp
         THEN ClampToMaximum(st, effect.resource, previous, Get(definition.max))
         ELSE [st EXCEPT !.error = "AboveMaximum"]
    ELSE Accumulate(st, effect.resource, value, updated)

\* One effect whose expression has the given value.
Evaluated(st, effect, value) ==
    IF value.t # "number" \/ value.v = NaN
    THEN [st EXCEPT !.error = "MiniExprEvaluationError"]
    ELSE IF effect.resource \notin ResourceIds(template)
    THEN [st EXCEPT !.error = "UnknownResource"]
    ELSE CheckBounds(st, effect, value.v, resourceMap(template, effect.resource),
                     st.resulting[effect.resource],
                     NumAdd(st.resulting[effect.resource], value.v))

\* One iteration of the loop over the chosen action's effects; a throw ends
\* the loop, so that no later iteration runs.
ApplyEffect(st, effect) ==
    IF st.error # "" THEN st
    ELSE Evaluated(st, effect, evaluateExpression(effect.ast, st.variables))

RECURSIVE ApplyEffects(_, _)
\* The loop after its first n iterations (or at the iteration that threw).
ApplyEffects(effects, n) ==
    IF n = 0
    THEN EffectState(cloneResources(resources), <<>>, createVariables, "")
    ELSE ApplyEffect(ApplyEffects(effects, n - 1), effects[n])

\* applyChosenAction(): the loop's final state; the session's resources are
\* assigned only when no iteration threw.
applyChosenAction ==
    IF ~IsSome(chosenAction)
    THEN EffectState(resources, <<>>, <<>>, "NoActionChosen")
    ELSE ApplyEffects(Get(chosenAction).effects, Len(Get(chosenAction).effects))

\* The loop working on this.resources itself, not on a copy.
CommittedInPlace(outcome) == outcome.resulting

\* this.resources after applyChosenAction(): the scratch copy is assigned
\* after the loop, which a throw never reaches.
Committed(outcome) == IF outcome.error = "" THEN outcome.resulting ELSE resources

\* apply() leaving the chosen action in place.
chosenAfterApplyKept == chosenAction

\* this.chosenAction = undefined, at the end of apply()
chosenAfterApply == None

\* apply()
apply ==
    IF ~ensurePhase("apply") THEN Throw("apply", "PhaseMismatch")
    ELSE \E outcome \in {applyChosenAction} :
            IF outcome.error # ""
            THEN /\ lastCall' = Thrown("apply", outcome.error)
                 /\ resources' = Committed(outcome)
                 /\ UNCHANGED <<rng, initialSeed, phase, turn, history, rollResult,
                                chosenAction, replayTurns, currentReplayTurn,
                                finalScore, timestampCounter>>
            ELSE /\ resources' = Committed(outcome)
                 /\ timestampCounter' = nextTimestamp(timestampCounter)
                 /\ history' = Append(history,
                                      [type |-> "apply", phase |-> "apply", turn |-> turn,
                                       deltas |-> outcome.deltas,
                                       resulting |-> cloneResources(resources'),
                                       timestamp |-> timestampCounter'])
                 /\ currentReplayTurn' =
                       IF IsSome(currentReplayTurn)
                       THEN Some([Get(currentReplayTurn) EXCEPT
                                     !.resources = Some(cloneResources(resources'))])
                       ELSE currentReplayTurn
                 /\ chosenAction' = chosenAfterApply
                 /\ phase' = "end"
                 /\ UNCHANGED <<rng, initialSeed, turn, rollResult, replayTurns, finalScore>>
                 /\ lastCall' = Returned("apply",
                                         Some([deltas |-> outcome.deltas,
                                               resulting |-> cloneResources(outcome.resulting)]))

\* The turn limit tested with > in place of >=: one turn too many.
SatisfiedAfterLimit(condition) ==
    condition.type = "turnLimit" /\ turn > condition.limit

\* One end condition of shouldEndGame().
Satisfied(condition) ==
    IF condition.type = "turnLimit" THEN turn >= condition.limit
    ELSE LET value == resources[condition.resource]
         IN CASE condition.comparison = ">" -> NumGreater(value, condition.value)
              [] condition.comparison = ">=" -> value # NaN /\ value >= condition.value
              [] condition.comparison = "<" -> NumLess(value, condition.value)
              [] condition.comparison = "<=" -> value # NaN /\ value <= condition.value
              [] condition.comparison = "==" -> value # NaN /\ value = condition.value
              [] condition.comparison = "!=" -> value = NaN \/ value # condition.value
              [] OTHER -> FALSE

\* shouldEndGame() returning true only when every end condition is satisfied.
shouldEndGameAll ==
    \A i \in 1..Len(template.endConditions) : Satisfied(template.endConditions[i])

\* shouldEndGame()
shouldEndGame ==
    \E i \in 1..Len(template.endConditions) : Satisfied(template.endConditions[i])

\* evaluateScore(): the total, or the error thrown.
evaluateScore ==
    LET total == evaluateExpression(template.scoring, createVariables)
    IN IF total.t # "number" \/ total.v = NaN
       THEN ErrV("MiniExprEvaluationError")
       ELSE total

\* finalizeTurnLog() keeping the record of the latest turn only.
finalizedTurnsLatest ==
    IF IsSome(currentReplayTurn)
    THEN <<[turn |-> Get(Get(currentReplayTurn).turn),
            roll |-> Get(Get(currentReplayTurn).roll),
            actionId |-> Get(Get(currentReplayTurn).actionId),
            resources |-> Get(Get(currentReplayTurn).resources)]>>
    ELSE replayTurns

\* finalizeTurnLog(): the replay turns after it.
finalizedTurns ==
    IF /\ IsSome(currentReplayTurn)
       /\ IsSome(Get(currentReplayTurn).roll)
       /\ IsSome(Get(currentReplayTurn).actionId)
       /\ IsSome(Get(currentReplayTurn).resources)
    THEN Append(replayTurns,
                [turn |-> Get(Get(currentReplayTurn).turn),
                 roll |-> Get(Get(currentReplayTurn).roll),
                 actionId |-> Get(Get(currentReplayTurn).actionId),
                 resources |-> Get(Get(currentReplayTurn).resources)])
    ELSE replayTurns

\* endTurn() going back to phase roll without counting the turn.
incrementTurnSkipped(t) == t

\* this._turn += 1
incrementTurn(t) == t + 1

\* endTurn()
endTurn ==
    IF ~ensurePhase("end") THEN Throw("endTurn", "PhaseMismatch")
    ELSE LET endTurnEvent == [type |-> "endTurn", phase |-> "end", turn |-> turn,
                              resources |-> cloneResources(resources),
                              timestamp |-> nextTimestamp(timestampCounter)]
             score == evaluateScore
         IN /\ replayTurns' = finalizedTurns
            /\ currentReplayTurn' = None
            /\ UNCHANGED <<rng, initialSeed, resources>>
            /\ IF shouldEndGame
               THEN IF IsErr(score)
                    THEN \* evaluateScore() throws after the endTurn event was
                         \* recorded and the turn log finalized.
                         /\ history' = Append(history, endTurnEvent)
                         /\ timestampCounter' = nextTimestamp(timestampCounter)
                         /\ UNCHANGED <<phase, turn, rollResult, chosenAction, finalScore>>
                         /\ lastCall' = Thrown("endTurn", score.v)
                    ELSE /\ finalScore' = Some(score.v)
                         /\ phase' = "complete"
                         /\ timestampCounter' = nextTimestamp(nextTimestamp(timestampCounter))
                         /\ history' = history \o
                               <<endTurnEvent,
                                 [type |-> "complete", phase |-> "complete", turn |-> turn,
                                  finalScore |-> score.v,
                                  resources |-> cloneResources(resources),
                                  timestamp |-> nextTimestamp(nextTimestamp(timestampCounter))]>>
                         /\ UNCHANGED <<turn, rollResult, chosenAction>>
                         /\ lastCall' = Returned("endTurn", None)
               ELSE /\ history' = Append(history, endTurnEvent)
                    /\ timestampCounter' = nextTimestamp(timestampCounter)
                    /\ turn' = incrementTurn(turn)
                    /\ rollResult' = None
                    /\ chosenAction' = None
                    /\ phase' = "roll"
                    /\ UNCHANGED finalScore
                    /\ lastCall' = Returned("endTurn", None)

\* getReplay() answering as soon as a turn has been logged.
getReplayEarly ==
    IF replayTurns = <<>> THEN None
    ELSE Some([templateId |-> template.id,
               templateVersion |-> template.version,
               seed |-> initialSeed,
               turns |-> replayTurns,
               finalScore |-> IF finalScore = None THEN 0 ELSE Get(finalScore)])

\* getReplay()
getReplay ==
    IF finalScore = None THEN None
    ELSE Some([templateId |-> template.id,
               templateVersion |-> template.version,
               seed |-> initialSeed,
               turns |-> replayTurns,
               finalScore |-> Get(finalScore)])

\* getSnapshot(): the projection, or the error thrown by listAvailableActions().
getSnapshot ==
    LET listed == listAvailableActions
    IN IF ~listed.ok THEN [ok |-> FALSE, error |-> listed.error]
       ELSE [ok |-> TRUE, error |-> "",
             template |-> template, phase |-> phase, turn |-> turn,
             resources |-> cloneResources(resources), roll |-> rollResult,
             availableActions |-> listed.actions]

(***************************************************************************)
(* Decision policies.                                                      *)
(***************************************************************************)
RECURSIVE SortByPriorityUnstable(_)
\* A sort that puts an action ahead of those of equal priority.
SortByPriorityUnstable(actions) ==
    IF actions = <<>> THEN <<>>
    ELSE LET n == Len(actions)
             x == actions[n]
             sorted == SortByPriorityUnstable(SubSeq(actions, 1, n - 1))
             ahead == {i \in 1..Len(sorted) : sorted[i].priority > x.priority}
             k == Cardinality(ahead)
         IN SubSeq(sorted, 1, k) \o <<x>> \o SubSeq(sorted, k + 1, Len(sorted))

RECURSIVE SortByPriority(_)
\* [...actions].sort((a, b) => b.priority - a.priority): a stable sort, by
\* insertion of each action behind those of equal or higher priority.
SortByPriority(actions) ==
    IF actions = <<>> THEN <<>>
    ELSE LET n == Len(actions)
             x == actions[n]
             sorted == SortByPriority(SubSeq(actions, 1, n - 1))
             ahead == {i \in 1..Len(sorted) : sorted[i].priority >= x.priority}
             k == Cardinality(ahead)
         IN SubSeq(sorted, 1, k) \o <<x>> \o SubSeq(sorted, k + 1, Len(sorted))

\* highestPriorityPolicy(context): the chosen id, or the error thrown.
highestPriorityPolicy(actions) ==
    IF Len(actions) = 0 THEN [ok |-> FALSE, id |-> ""]
    ELSE [ok |-> TRUE, id |-> SortByPriority(actions)[1].id]

\* ({ actions }) => actions[0].id, which throws on an empty list.
firstActionPolicy(actions) ==
    IF Len(actions) = 0 THEN [ok |-> FALSE, id |-> ""]
    ELSE [ok |-> TRUE, id |-> actions[1].id]

\* A policy that picks the last available action.
lastActionPolicy(actions) ==
    IF Len(actions) = 0 THEN [ok |-> FALSE, id |-> ""]
    ELSE [ok |-> TRUE, id |-> actions[Len(actions)].id]

\* A policy that returns an id no template defines.
missingActionPolicy(actions) == [ok |-> TRUE, id |-> "missing"]

Policies == {"highestPriority", "first", "last", "missing"}

\* policy(context)
Decide(p, actions) ==
    CASE p = "highestPriority" -> highestPriorityPolicy(actions)
      [] p = "first" -> firstActionPolicy(actions)
      [] p = "last" -> lastActionPolicy(actions)
      [] p = "missing" -> missingActionPolicy(actions)

(***************************************************************************)
(* Programs.                                                               *)
(***************************************************************************)
\* Events a failing endTurn() may add beyond those of a full game.
ExtraEvents == 2

MaxEvents == 4 * TurnLimit + 2 + ExtraEvents

\* Number of autoplay calls made with the same template, seed and policy.
AutoplayCalls == 2

Init ==
    /\ template \in Templates
    /\ seed \in Seeds
    /\ program \in {"manual", "autoplay"}
    /\ policy \in IF program = "autoplay" THEN Policies ELSE {"none"}
    /\ Unconstructed
    /\ lastCall = Returned("none", None)
    /\ pc = "start"
    /\ returned = <<>>
    /\ policyCalls = 0
    /\ record = None
    /\ commands = <<>>
    /\ pointer = 0
    /\ index = 0
    /\ simError = None
    /\ simResult = None
    /\ input = None
    /\ output = None

\* A test or the UI, calling the session's operations directly, in any order.
Manual == program = "manual" /\ phase # "setup" /\ Len(history) < MaxEvents

New ==
    /\ program = "manual"
    /\ phase = "setup"
    /\ Construct(template, seed)
    /\ UNCHANGED <<inputVars, callVars, autoplayVars, simulateVars>>

CallRoll ==
    /\ Manual
    /\ roll
    /\ UNCHANGED <<inputVars, callVars, autoplayVars, simulateVars>>

CallChoose ==
    /\ Manual
    /\ \E actionId \in ActionIds(template) \cup {"missing"} : choose(actionId)
    /\ UNCHANGED <<inputVars, callVars, autoplayVars, simulateVars>>

CallApply ==
    /\ Manual
    /\ apply
    /\ UNCHANGED <<inputVars, callVars, autoplayVars, simulateVars>>

CallEndTurn ==
    /\ Manual
    /\ endTurn
    /\ UNCHANGED <<inputVars, callVars, autoplayVars, simulateVars>>

\* The reads of a session: three methods and the events getter.
Reads == {"getSnapshot", "listAvailableActions", "getReplay", "events"}

\* What a read returns, or the error it throws.  An array is held in a record.
Read(op) ==
    CASE op = "getSnapshot" ->
            IF getSnapshot.ok THEN Returned(op, Some(getSnapshot))
            ELSE Thrown(op, getSnapshot.error)
      [] op = "listAvailableActions" ->
            IF listAvailableActions.ok THEN Returned(op, Some([actions |-> listAvailableActions.actions]))
            ELSE Thrown(op, listAvailableActions.error)
      [] op = "getReplay" -> Returned(op, getReplay)
      [] op = "events" -> Returned(op, Some([events |-> history]))

\* A read of the session, in any phase: none of them assigns a field.
CallRead ==
    /\ program = "manual"
    /\ phase # "setup"
    /\ \E op \in Reads : lastCall' = Read(op)
    /\ UNCHANGED <<inputVars, callVars, sessionVars, autoplayVars, simulateVars>>

\* A snapshot whose resources are the session's own map.
snapshotResourcesShared == "session"

\* The object that getSnapshot() returns as its resources: the copy made by
\* cloneResources, not the session's map.
snapshotResources == "copy"

\* The caller assigns to an entry of the resources of the snapshot it was
\* given.  The session's map changes with it only if it is the same object.
CallerWrites ==
    /\ program = "manual"
    /\ lastCall.op = "getSnapshot"
    /\ lastCall.result = "ok"
    /\ \E id \in DOMAIN Get(lastCall.value).resources :
          LET written == [Get(lastCall.value).resources EXCEPT ![id] = NegInfinity]
          IN /\ lastCall' = Returned("getSnapshot",
                                     Some([Get(lastCall.value) EXCEPT !.resources = written]))
             /\ IF snapshotResources = "session"
                THEN /\ resources' = written
                     /\ UNCHANGED <<rng, initialSeed, phase, turn, history, rollResult,
                                    chosenAction, replayTurns, currentReplayTurn,
                                    finalScore, timestampCounter>>
                ELSE UNCHANGED sessionVars
    /\ UNCHANGED <<inputVars, callVars, autoplayVars, simulateVars>>

\* The whole template's actions given to the policy, available or not.
PolicyContextTemplate(snapshot) == snapshot.template.actions

\* context.actions: the snapshot's available actions.
PolicyContext(snapshot) == snapshot.availableActions

\* autoplay(template, policy, { seed }): the call, then one action for each
\* session operation of the loop, then the return.  A throw anywhere ends it.
Running == program = "autoplay" /\ pc = "running"

\* A loop that catches the error of a call and goes on.
AfterCallResumed == pc' = "running"

\* A call that throws ends autoplay: nothing in it catches.
AfterCall == pc' = IF lastCall'.result = "ok" THEN "running" ELSE "failed"

AutoplayCall ==
    /\ program = "autoplay"
    /\ \/ pc = "start"
       \/ pc = "returned" /\ Len(returned) < AutoplayCalls
    /\ Construct(template, seed)
    /\ pc' = "running"
    /\ policyCalls' = 0
    /\ UNCHANGED <<inputVars, callVars, policy, returned, simulateVars>>

AutoRoll ==
    /\ Running
    /\ phase = "roll"
    /\ roll
    /\ AfterCall
    /\ UNCHANGED <<inputVars, callVars, policy, returned, policyCalls, simulateVars>>

AutoChoose ==
    /\ Running
    /\ phase = "choose"
    /\ LET snapshot == getSnapshot
           decision == Decide(policy, PolicyContext(snapshot))
       IN IF ~snapshot.ok
          THEN /\ Throw("getSnapshot", snapshot.error)
               /\ UNCHANGED policyCalls
          ELSE /\ policyCalls' = policyCalls + 1
               /\ IF ~decision.ok
                  THEN Throw("policy", "PolicyError")
                  ELSE choose(decision.id)
    /\ AfterCall
    /\ UNCHANGED <<inputVars, callVars, policy, returned, simulateVars>>

AutoApply ==
    /\ Running
    /\ phase = "apply"
    /\ apply
    /\ AfterCall
    /\ UNCHANGED <<inputVars, callVars, policy, returned, policyCalls, simulateVars>>

AutoEndTurn ==
    /\ Running
    /\ phase = "end"
    /\ endTurn
    /\ AfterCall
    /\ UNCHANGED <<inputVars, callVars, policy, returned, policyCalls, simulateVars>>

AutoReturn ==
    /\ Running
    /\ phase = "complete"
    /\ IF getReplay = None
       THEN /\ pc' = "failed"
            /\ UNCHANGED returned
       ELSE /\ pc' = "returned"
            /\ returned' = Append(returned, Get(getReplay))
    /\ UNCHANGED <<inputVars, callVars, sessionVars, lastCall, policy, policyCalls, simulateVars>>

\* commandsFromReplay(record)
Command(type, actionId) == [type |-> type, actionId |-> actionId]

commandsFromReplay(r) ==
    LET n == Len(r.turns)
    IN SubSeq([i \in 1..(4 * n) |->
                  LET t == r.turns[((i - 1) \div 4) + 1]
                  IN CASE i % 4 = 1 -> Command("roll", "")
                       [] i % 4 = 2 -> Command("choose", t.actionId)
                       [] i % 4 = 3 -> Command("apply", "")
                       [] OTHER -> Command("endTurn", "")],
              1, 4 * n)

\* simulateSession(template, record.seed, commandsFromReplay(record)) for the
\* record of a completed session: the call constructs a fresh session.
SimulateReplay ==
    /\ program = "manual"
    /\ phase = "complete"
    /\ LET r == Get(getReplay)
       IN /\ record' = Some(r)
          /\ seed' = r.seed
          /\ commands' = commandsFromReplay(r)
          /\ pointer' = Len(commands')
    /\ index' = 0
    /\ simError' = None
    /\ simResult' = None
    /\ program' = "simulate"
    /\ Construct(template, seed')
    /\ UNCHANGED <<template, callVars, autoplayVars>>

\* One iteration of simulateSession's loop: the command at index is run; a
\* throw is caught, recorded and ends the loop.
SimulateStep ==
    /\ program = "simulate"
    /\ simResult = None
    /\ simError = None
    /\ index < pointer
    /\ LET command == commands[index + 1]
       IN CASE command.type = "roll" -> roll
            [] command.type = "choose" -> choose(command.actionId)
            [] command.type = "apply" -> apply
            [] command.type = "endTurn" -> endTurn
    /\ IF lastCall'.result = "ok"
       THEN index' = index + 1 /\ UNCHANGED simError
       ELSE index' = index /\ simError' = Some(lastCall'.error)
    /\ UNCHANGED <<inputVars, callVars, autoplayVars, record, commands, pointer, simResult>>

\* The end of simulateSession: the snapshot is taken and the result returned.
\* The snapshot is taken outside the try (simulation.ts 62): a snapshot with
\* ok = FALSE stands for simulateSession throwing what getSnapshot() threw.
SimulateReturn ==
    /\ program = "simulate"
    /\ phase # "setup"
    /\ simResult = None
    /\ index = pointer \/ simError # None
    /\ simResult' = Some([snapshot |-> getSnapshot,
                          events |-> history,
                          replay |-> getReplay,
                          error |-> simError])
    /\ UNCHANGED <<inputVars, callVars, sessionVars, lastCall, autoplayVars, record, commands,
                   pointer, index, simError>>

Next ==
    \/ New
    \/ CallRoll
    \/ CallChoose
    \/ CallApply
    \/ CallEndTurn
    \/ CallRead
    \/ CallerWrites
    \/ AutoplayCall
    \/ AutoRoll
    \/ AutoChoose
    \/ AutoApply
    \/ AutoEndTurn
    \/ AutoReturn
    \/ SimulateReplay
    \/ SimulateStep
    \/ SimulateReturn

Spec == Init /\ [][Next]_vars

\* autoplay is a sequential loop: once called, it keeps taking its next step
\* until it returns or throws.  That is weak fairness of the loop's steps.
\* For the four session calls it is written out, with the enabling condition
\* of the step (the loop is running and has not reached phase complete: the
\* call of the current phase then returns or throws, a step either way) in
\* place of ENABLED.
AutoplayLoop == AutoRoll \/ AutoChoose \/ AutoApply \/ AutoEndTurn

CallPending == Running /\ phase # "complete"

FairSpec ==
    /\ Spec
    /\ WF_vars(AutoReturn)
    /\ ([]<>~CallPending \/ []<><<AutoplayLoop>>_vars)

(***************************************************************************)
(* Functions called on their own, on inputs drawn from bounded sets.       *)
(***************************************************************************)
\* The rest of the state while a function is called on its own: no session.
Standalone(name) ==
    /\ program = name
    /\ template = TallyTemplate
    /\ seed = SeedOf(1, 2)
    /\ policy = "none"
    /\ Unconstructed
    /\ lastCall = Returned("none", None)
    /\ pc = "start"
    /\ returned = <<>>
    /\ policyCalls = 0
    /\ record = None
    /\ commands = <<>>
    /\ pointer = 0
    /\ index = 0
    /\ simError = None
    /\ simResult = None

\* highestPriorityPolicy(context) for every list of up to MaxActions
\* actions with priorities up to MaxPriority; the ids are distinct.
MaxActions == 4

MaxPriority == 2

CandidateIds == <<"a", "b", "c", "d", "e", "f">>

Candidates(priorities) ==
    [i \in 1..Len(priorities) |-> Action(CandidateIds[i], priorities[i], None, <<>>)]

ActionLists ==
    UNION {{Candidates(p) : p \in [1..n -> 0..MaxPriority]} : n \in 0..MaxActions}

PolicyInit ==
    /\ Standalone("policy")
    /\ input \in ActionLists
    /\ output = None

CallPolicy ==
    /\ program = "policy"
    /\ output = None
    /\ output' = Some(highestPriorityPolicy(input))
    /\ UNCHANGED <<inputVars, sessionVars, lastCall, autoplayVars, simulateVars, input>>

PolicySpec == PolicyInit /\ [][CallPolicy]_vars

\* An rng built from a seed, drawn from a number of times, serialized and
\* deserialized, and then drawn from side by side with the restored one.
MaxDraws == 3

\* nextBigInt(), or nextInt(maxExclusive) when a bound is given.
Draw(r, maxExclusive) ==
    IF maxExclusive = None THEN nextBigInt(r) ELSE nextInt(r, Get(maxExclusive))

RngInit ==
    /\ Standalone("rng")
    /\ input \in Seeds \cup {<<toHex(UINT64_MASK), toHex(Shl(WordOf(1), WordBits - 1))>>,
                             <<toHex(Shl(WordOf(1337), 40)), toHex(ZeroWord)>>}
    /\ output = [original |-> NewRng(input), restored |-> None,
                 prior |-> 0, later |-> 0, values |-> None]

\* One draw from the rng, and the same draw from the restored rng if there
\* is one.
RngDraw ==
    /\ program = "rng"
    /\ IF IsSome(output.restored) THEN output.later < MaxDraws ELSE output.prior < MaxDraws
    /\ \E maxExclusive \in {None, Some(2), Some(6)} :
          \E drawn \in {Draw(output.original, maxExclusive)} :
             IF IsSome(output.restored)
             THEN \E again \in {Draw(Get(output.restored), maxExclusive)} :
                     output' = [output EXCEPT !.original = drawn.rng,
                                              !.restored = Some(again.rng),
                                              !.later = @ + 1,
                                              !.values = Some(<<drawn.value, again.value>>)]
             ELSE output' = [output EXCEPT !.original = drawn.rng, !.prior = @ + 1]
    /\ UNCHANGED <<inputVars, sessionVars, lastCall, autoplayVars, simulateVars, input>>

\* Xorshift128Plus.deserialize(rng.serialize()); the rng itself is left as it is.
RngRestore ==
    /\ program = "rng"
    /\ output.restored = None
    /\ output' = [output EXCEPT !.restored = Some(deserialize(serialize(output.original)))]
    /\ UNCHANGED <<inputVars, sessionVars, lastCall, autoplayVars, simulateVars, input>>

RngSpec == RngInit /\ [][RngDraw \/ RngRestore]_vars

\* nextInt(maxExclusive) called once on an rng in a given state.  The
\* states are those of the seeds and one given by its two words; the
\* arguments are small and large integers, and numbers that are not
\* positive integers.

RngStates ==
    {NewRng(s) : s \in Seeds}
        \cup {<<HexWord(<<0, 8, 2, 1, 12, 4, 1, 0, 0, 3, 8, 8, 0, 0, 0, 7>>), ZeroWord>>,
              <<HexWord(<<0, 7, 14, 0, 7, 15, 15, 0, 3, 15, 15, 15, 14, 0, 0, 0>>), ZeroWord>>,
              <<UINT64_MASK, Shl(WordOf(1), WordBits - 1)>>,
              <<ZeroWord, UINT64_MASK>>,
              <<Shl(WordOf(1337), 40), WordOf(7)>>}

MaxExclusives ==
    {Double(FALSE, WordOf(n), FALSE) : n \in {1, 2, 6, 10000}}
        \cup {Double(FALSE, AddWord(Shl(WordOf(1), SignificandBits), WordOf(4)), FALSE),
              Double(FALSE, Shl(WordOf(1), 60), FALSE),
              Double(FALSE, ZeroWord, FALSE),
              Double(TRUE, WordOf(3), FALSE),
              Double(FALSE, WordOf(1), TRUE),
              Double(FALSE, ZeroWord, TRUE)}

NextIntInit ==
    /\ Standalone("nextInt")
    /\ input \in [rng : RngStates, maxExclusive : MaxExclusives]
    /\ output = None

CallNextInt ==
    /\ program = "nextInt"
    /\ output = None
    /\ output' = Some(NextInt(input.rng, input.maxExclusive))
    /\ UNCHANGED <<inputVars, sessionVars, lastCall, autoplayVars, simulateVars, input>>

NextIntSpec == NextIntInit /\ [][CallNextInt]_vars

\* An rng constructed from a seed of each form, and stepped.
SeedInputs ==
    {[type |-> "undefined"]}
        \cup {[type |-> "number", number |-> Double(negative, WordOf(n), FALSE)] :
                 negative \in BOOLEAN, n \in {0, 1, 42}}
        \cup {[type |-> "number", number |-> Double(FALSE, WordOf(1), TRUE)]}
        \cup {[type |-> "bigint", bigint |-> w] : w \in {ZeroWord, WordOf(1337), UINT64_MASK}}
        \cup {[type |-> "string", string |-> codes] :
                 codes \in {<<>>, <<97>>, <<115, 101, 101, 100>>, <<48, 120, 48>>}}
        \cup {[type |-> "array", array |-> <<a, b>>] :
                 a \in {ZeroWord, UINT64_MASK}, b \in {ZeroWord, WordOf(1), UINT64_MASK}}
        \cup {[type |-> "serialized", algorithm |-> algorithm, state |-> state] :
                 algorithm \in {"xorshift128+", "pcg32"}, state \in Seeds}

SeedInit ==
    /\ Standalone("seed")
    /\ input \in SeedInputs
    /\ output = None

SeedConstruct ==
    /\ program = "seed"
    /\ output = None
    /\ output' = Some([rng |-> Xorshift128Plus(input), draws |-> 0])
    /\ UNCHANGED <<inputVars, sessionVars, lastCall, autoplayVars, simulateVars, input>>

SeedDraw ==
    /\ program = "seed"
    /\ IsSome(output)
    /\ Get(output).rng.ok
    /\ Get(output).draws < MaxDraws
    /\ output' = Some([rng |-> [ok |-> TRUE, state |-> nextBigInt(Get(output).rng.state).rng],
                       draws |-> Get(output).draws + 1])
    /\ UNCHANGED <<inputVars, sessionVars, lastCall, autoplayVars, simulateVars, input>>

SeedSpec == SeedInit /\ [][SeedConstruct \/ SeedDraw]_vars

\* compileExpression(source) and then, for some sources, evaluateExpression
\* on the compiled expression.  The sources are every "a op b op c" over
\* the binary operators (compiled only), and formulas given by their text.
BinaryOperators == UNION {Levels[level] : level \in 1..Len(Levels)}

Formula(text) ==
    LET n(x) == NumberToken(x)
        o(v) == Token("operator", v)
        i(v) == Token("identifier", v)
        open == Token("paren", "(")
        close == Token("paren", ")")
    IN CASE text = "1 + 2 * 3" -> <<n(1), o("+"), n(2), o("*"), n(3)>>
         [] text = "(1 + 2) * 3" -> <<open, n(1), o("+"), n(2), close, o("*"), n(3)>>
         [] text = "10 - 3 - 2" -> <<n(10), o("-"), n(3), o("-"), n(2)>>
         [] text = "10 - (3 - 2)" -> <<n(10), o("-"), open, n(3), o("-"), n(2), close>>
         [] text = "8 / 4 / 2" -> <<n(8), o("/"), n(4), o("/"), n(2)>>
         [] text = "1 + 2 < 4 == true" -> <<n(1), o("+"), n(2), o("<"), n(4), o("=="), i("true")>>
         [] text = "true || false && false" -> <<i("true"), o("||"), i("false"), o("&&"), i("false")>>
         [] text = "2 ^ 3 ^ 2" -> <<n(2), o("^"), n(3), o("^"), n(2)>>
         [] text = "2 ^ (3 ^ 2)" -> <<n(2), o("^"), open, n(3), o("^"), n(2), close>>
         [] text = "-2 ^ 2" -> <<o("-"), n(2), o("^"), n(2)>>
         [] text = "-(2 ^ 2)" -> <<o("-"), open, n(2), o("^"), n(2), close>>
         [] text = "2 * -3 ^ 2" -> <<n(2), o("*"), o("-"), n(3), o("^"), n(2)>>
         [] text = "2 ^ -x" -> <<n(2), o("^"), o("-"), i("x")>>
         [] text = "!true == false" -> <<o("!"), i("true"), o("=="), i("false")>>
         [] text = "false && missing" -> <<i("false"), o("&&"), i("missing")>>
         [] text = "true || missing" -> <<i("true"), o("||"), i("missing")>>
         [] text = "false && 1 / 0 > 0" -> <<i("false"), o("&&"), n(1), o("/"), n(0), o(">"), n(0)>>
         [] text = "true || 1 / 0 > 0" -> <<i("true"), o("||"), n(1), o("/"), n(0), o(">"), n(0)>>
         [] text = "0 && missing" -> <<n(0), o("&&"), i("missing")>>
         [] text = "null && missing" -> <<i("null"), o("&&"), i("missing")>>
         [] text = "x || missing" -> <<i("x"), o("||"), i("missing")>>
         [] text = "true && x" -> <<i("true"), o("&&"), i("x")>>
         [] text = "false || 0" -> <<i("false"), o("||"), n(0)>>
         [] text = "false || null" -> <<i("false"), o("||"), i("null")>>
         [] text = "true && missing" -> <<i("true"), o("&&"), i("missing")>>
         [] text = "false || 1 / 0 > 0" -> <<i("false"), o("||"), n(1), o("/"), n(0), o(">"), n(0)>>
         [] text = "1 / 0" -> <<n(1), o("/"), n(0)>>
         [] text = "0 / 0" -> <<n(0), o("/"), n(0)>>
         [] text = "x % 0" -> <<i("x"), o("%"), n(0)>>
         [] text = "1 / (2 - 2)" -> <<n(1), o("/"), open, n(2), o("-"), n(2), close>>
         [] text = "7 % (x - 3)" -> <<n(7), o("%"), open, i("x"), o("-"), n(3), close>>
         [] text = "1 + 6 / (3 - x)" -> <<n(1), o("+"), n(6), o("/"), open, n(3), o("-"), i("x"), close>>
         [] text = "6 / x" -> <<n(6), o("/"), i("x")>>
         [] text = "7 % x" -> <<n(7), o("%"), i("x")>>
         [] text = "1 /" -> <<n(1), o("/")>>
         [] text = "(1 / 0" -> <<open, n(1), o("/"), n(0)>>
         [] text = "MAX(1, 2 + x)" ->
               <<i("MAX"), open, n(1), Token("comma", ","), n(2), o("+"), i("x"), close>>

EvaluatedFormulas ==
    {"1 + 2 * 3", "(1 + 2) * 3", "10 - 3 - 2", "10 - (3 - 2)", "8 / 4 / 2",
     "1 + 2 < 4 == true", "true || false && false", "2 ^ 3 ^ 2", "2 ^ (3 ^ 2)",
     "-2 ^ 2", "-(2 ^ 2)", "2 * -3 ^ 2", "!true == false",
     "false && missing", "true || missing", "false && 1 / 0 > 0", "true || 1 / 0 > 0",
     "0 && missing", "null && missing", "x || missing", "true && x", "false || 0",
     "false || null", "true && missing", "false || 1 / 0 > 0",
     "1 / 0", "0 / 0", "x % 0", "1 / (2 - 2)", "7 % (x - 3)", "1 + 6 / (3 - x)",
     "6 / x", "7 % x", "1 /", "(1 / 0"}

CompiledFormulas == {"2 ^ -x", "MAX(1, 2 + x)"}

ExprInputs ==
    {[text |-> text, source |-> Formula(text), evaluate |-> TRUE] : text \in EvaluatedFormulas}
        \cup {[text |-> text, source |-> Formula(text), evaluate |-> FALSE] : text \in CompiledFormulas}
        \cup {[text |-> "a op b op c",
               source |-> <<NumberToken(1), Token("operator", first), NumberToken(2),
                            Token("operator", second), NumberToken(3)>>,
               evaluate |-> FALSE] : first \in BinaryOperators, second \in BinaryOperators}

\* context.variables of the evaluations.
ExprVariables == [x |-> NumV(3)]

ExprInit ==
    /\ Standalone("expr")
    /\ input \in ExprInputs
    /\ output = None

Compile ==
    /\ program = "expr"
    /\ output = None
    /\ output' = Some([compiled |-> parseExpression(input.source), value |-> None])
    /\ UNCHANGED <<inputVars, sessionVars, lastCall, autoplayVars, simulateVars, input>>

Evaluate ==
    /\ program = "expr"
    /\ IsSome(output)
    /\ input.evaluate
    /\ Get(output).compiled.ok
    /\ Get(output).value = None
    /\ output' = Some([Get(output) EXCEPT
                          !.value = Some(evaluateExpression(Get(output).compiled.node,
                                                            ExprVariables))])
    /\ UNCHANGED <<inputVars, sessionVars, lastCall, autoplayVars, simulateVars, input>>

ExprSpec == ExprInit /\ [][Compile \/ Evaluate]_vars

\* simulateSession(template, seed, commands, pointer) as the desktop app
\* calls it: on a list of commands, with a pointer that undo and redo move,
\* each move being a new call on a fresh session.  The command lists play
\* one action in every turn up to the turn limit and then roll once more, or
\* call the operations out of order.
TurnsOf(actionId) ==
    [i \in 1..(4 * TurnLimit + 1) |->
        CASE i % 4 = 1 -> Command("roll", "")
          [] i % 4 = 2 -> Command("choose", actionId)
          [] i % 4 = 3 -> Command("apply", "")
          [] OTHER -> Command("endTurn", "")]

CommandLists(t) ==
    {TurnsOf(actionId) : actionId \in ActionIds(t) \cup {"missing"}}
        \cup {<<Command("roll", ""), Command("apply", ""), Command("roll", "")>>,
              <<Command("endTurn", ""), Command("roll", "")>>}

SimulateInit ==
    /\ template \in Templates
    /\ seed \in Seeds
    /\ program = "simulate"
    /\ policy = "none"
    /\ Unconstructed
    /\ lastCall = Returned("none", None)
    /\ pc = "start"
    /\ returned = <<>>
    /\ policyCalls = 0
    /\ record = None
    /\ commands \in CommandLists(template)
    /\ pointer = 0
    /\ index = 0
    /\ simError = None
    /\ simResult = None
    /\ input = None
    /\ output = None

\* A call of simulateSession with a pointer into the commands; the call
\* after an earlier one (the pointer moved by undo or redo) keeps the
\* earlier pointer and result at hand.
SimulateCall ==
    /\ program = "simulate"
    /\ record = None
    /\ phase = "setup" \/ (IsSome(simResult) /\ output = None)
    /\ \E p \in 0..Len(commands) : pointer' = p
    /\ output' = IF IsSome(simResult)
                 THEN Some([pointer |-> pointer, result |-> Get(simResult)])
                 ELSE None
    /\ index' = 0
    /\ simError' = None
    /\ simResult' = None
    /\ Construct(template, seed)
    /\ UNCHANGED <<inputVars, autoplayVars, record, commands, input>>

SimulateSpec == SimulateInit /\ [][SimulateCall \/ SimulateStep \/ SimulateReturn]_vars

(***************************************************************************)
(* Properties.                                                             *)
(***************************************************************************)
Operations == {"roll", "choose", "apply", "endTurn"}

RequiredPhase(op) ==
    CASE op = "roll" -> "roll"
      [] op = "choose" -> "choose"
      [] op = "apply" -> "apply"
      [] op = "endTurn" -> "end"

\* A step that constructs a session.
Constructs == New \/ AutoplayCall \/ SimulateReplay

\* A step in which a caller drives the session.
SessionCall ==
    \/ CallRoll \/ CallChoose \/ CallApply \/ CallEndTurn
    \/ AutoRoll \/ AutoChoose \/ AutoApply \/ AutoEndTurn
    \/ SimulateStep

\* A step in which the operation op is called, and one in which it returns.
Invokes(op) == SessionCall /\ lastCall'.op = op

Succeeds(op) == Invokes(op) /\ lastCall'.result = "ok"

\* C1: roll(), choose(id), apply() or endTurn() called in a phase other than
\* the one it requires throws the phase-mismatch error and leaves the state
\* of the session as it was: phase, turn, resources, roll, chosen action,
\* event log, replay turns, final score and RNG state.
PhaseMismatchLeavesState ==
    [][\A op \in Operations :
          (Invokes(op) /\ phase # RequiredPhase(op))
             => /\ lastCall' = Thrown(op, "PhaseMismatch")
                /\ UNCHANGED sessionVars]_vars

\* choose() called before any roll() was rejected.
ChooseBeforeRollRejected ==
    /\ lastCall = Thrown("choose", "PhaseMismatch")
    /\ phase = "roll"
    /\ Len(history) = 1

\* C2: a constructed session is in phase roll at turn 1; within a session
\* the phase changes only from roll to choose by a successful roll(), from
\* choose to apply by a successful choose(), from apply to end by a
\* successful apply() and from end to roll or complete by a successful
\* endTurn(); and every successful operation makes its phase change.
PhaseOrder ==
    [][/\ Constructs => (phase' = "roll" /\ turn' = 1)
       /\ (~Constructs /\ phase' # phase) =>
             \/ phase = "roll" /\ phase' = "choose" /\ Succeeds("roll")
             \/ phase = "choose" /\ phase' = "apply" /\ Succeeds("choose")
             \/ phase = "apply" /\ phase' = "end" /\ Succeeds("apply")
             \/ phase = "end" /\ phase' \in {"roll", "complete"} /\ Succeeds("endTurn")
       /\ \A op \in Operations :
             Succeeds(op) => (phase = RequiredPhase(op) /\ phase' # phase)]_vars

\* A game went round the cycle twice and completed.
CompletedAfterTwoTurns == phase = "complete" /\ Len(replayTurns) >= 2

\* C3: once a session is in phase complete, every call of roll(), choose(),
\* apply() or endTurn() throws, and phase, turn, resources, final score,
\* event log and replay turns stay as they are.
CompleteIsAbsorbing ==
    [][(phase = "complete" /\ ~Constructs)
          => /\ UNCHANGED <<phase, turn, resources, finalScore, history, replayTurns>>
             /\ \A op \in Operations : Invokes(op) => lastCall'.result = "throw"]_vars

\* An operation was called on a completed session.
CalledAfterComplete ==
    /\ phase = "complete"
    /\ lastCall.result = "throw"
    /\ lastCall.op \in Operations

\* The effects of the chosen action, and the loop of apply() over them.
ChosenEffects == Get(chosenAction).effects

FailsAt(n) ==
    /\ ApplyEffects(ChosenEffects, n - 1).error = ""
    /\ ApplyEffects(ChosenEffects, n).error # ""

\* C4: apply() is all-or-nothing: when an effect of the chosen action fails,
\* apply() throws; and an apply() that throws leaves the resources as they
\* were before the call, records no event and leaves the phase.
ApplyIsAllOrNothing ==
    [][Invokes("apply") =>
          /\ (phase = "apply" /\ \E n \in 1..Len(ChosenEffects) : FailsAt(n))
                => lastCall'.result = "throw"
          /\ lastCall'.result = "throw" => UNCHANGED <<resources, history, phase>>]_vars

\* apply() threw at a later effect after an earlier effect had changed the
\* scratch copy of the resources.
FailedAfterPartialUpdate ==
    /\ lastCall.op = "apply"
    /\ lastCall.result = "throw"
    /\ phase = "apply"
    /\ IsSome(chosenAction)
    /\ ApplyEffects(ChosenEffects, 1).error = ""
    /\ ApplyEffects(ChosenEffects, 1).resulting # resources

\* Effect n of the chosen action is reached without an error and would take
\* its resource above the declared maximum.
Exceeds(n, effect, before, value) ==
    /\ before.error = ""
    /\ value.t = "number"
    /\ value.v # NaN
    /\ effect.resource \in ResourceIds(template)
    /\ IsSome(resourceMap(template, effect.resource).max)
    /\ before.resulting[effect.resource] # NaN
    /\ IF IsFinite(before.resulting[effect.resource]) /\ IsFinite(value.v)
       THEN before.resulting[effect.resource] + value.v
               > Get(resourceMap(template, effect.resource).max)
       ELSE Infinity \in {before.resulting[effect.resource], value.v}
            /\ NegInfinity \notin {before.resulting[effect.resource], value.v}

ExceedsAt(n) ==
    Exceeds(n, ChosenEffects[n], ApplyEffects(ChosenEffects, n - 1),
            evaluateExpression(ChosenEffects[n].ast,
                               ApplyEffects(ChosenEffects, n - 1).variables))

\* No effect after the n-th changes the resource of the n-th.
LastOn(n) ==
    \A m \in (n + 1)..Len(ChosenEffects) :
        ChosenEffects[m].resource # ChosenEffects[n].resource

MaximumAt(n) == Get(resourceMap(template, ChosenEffects[n].resource).max)

InitialWithinBounds(t) ==
    \A i \in 1..Len(t.resources) :
        /\ IsSome(t.resources[i].min) => t.resources[i].initial >= Get(t.resources[i].min)
        /\ IsSome(t.resources[i].max) => t.resources[i].initial <= Get(t.resources[i].max)

\* value >= bound and value <= bound on doubles.
AtLeast(value, bound) == value # NaN /\ value >= bound

AtMost(value, bound) == value # NaN /\ value <= bound

\* C6: for a template whose initial values lie within their declared
\* bounds, in every reachable state every resource is at least its declared
\* minimum and at most its declared maximum.
ResourcesWithinBounds ==
    (phase # "setup" /\ InitialWithinBounds(template)) =>
        \A id \in DOMAIN resources :
            /\ IsSome(resourceMap(template, id).min)
                  => AtLeast(resources[id], Get(resourceMap(template, id).min))
            /\ IsSome(resourceMap(template, id).max)
                  => AtMost(resources[id], Get(resourceMap(template, id).max))

\* The variables an effect sees when the scratch copy of the resources is
\* resulting: the resources as updated so far, and the turn and roll
\* variables as at the call.
SeesUpdated(variables, resulting) ==
    /\ DOMAIN variables = DOMAIN createVariables
    /\ \A k \in DOMAIN variables :
          variables[k] = IF k \in DOMAIN resulting THEN NumV(resulting[k])
                         ELSE createVariables[k]

SeesUpdatedAfter(st) == st.error = "" => SeesUpdated(st.variables, st.resulting)

ReplayRoundTrip ==
    program = "simulate" =>
        /\ simError = None
        /\ IsSome(simResult) =>
              /\ phase = "complete"
              /\ IsSome(Get(simResult).replay)
              /\ Get(Get(simResult).replay).turns = Get(record).turns
              /\ Get(Get(simResult).replay).finalScore = Get(record).finalScore

\* The record of a game of at least two turns was replayed to its end.
ReplayedToTheEnd ==
    /\ program = "simulate"
    /\ IsSome(simResult)
    /\ index = pointer
    /\ Len(Get(record).turns) >= 2

\* C10: getReplay() returns a record exactly when the phase is complete,
\* which is exactly when the final score is set.
ReplayOnlyWhenComplete ==
    /\ IsSome(getReplay) <=> phase = "complete"
    /\ phase = "complete" <=> finalScore # None

\* A session with a logged turn, not yet complete, has no replay.
NoReplayAfterFirstTurn ==
    /\ phase = "roll"
    /\ turn = 2
    /\ Len(replayTurns) = 1
    /\ getReplay = None

\* The record has exactly TurnLimit turns, numbered from 1, and its final
\* score is the sum of the recorded roll totals.
RollTotals(r) == [i \in 1..Len(r.turns) |-> r.turns[i].roll.total]

TalliesRolls(r) ==
    /\ Len(r.turns) = TurnLimit
    /\ \A i \in 1..Len(r.turns) : r.turns[i].turn = i
    /\ r.finalScore = Sum(RollTotals(r))

\* C11: for the tally template (one unbounded resource, one always-available
\* action adding roll_total, the resource as score, turnLimit the only end
\* condition) and a policy that picks an offered action, a running autoplay
\* returns, and every record it returns has exactly TurnLimit turns numbered
\* 1..TurnLimit and a final score equal to the sum of their roll totals.
AutoplayTallies ==
    /\ [](template = TallyTemplate =>
             \A i \in 1..Len(returned) : TalliesRolls(returned[i]))
    /\ (pc = "running" /\ template = TallyTemplate /\ policy # "missing")
          ~> (pc = "returned")

\* An autoplay of the tally template returned its record.
TallyReturned ==
    /\ template = TallyTemplate
    /\ pc = "returned"
    /\ Len(returned) >= 1
    /\ returned[1].finalScore >= 2 * TurnLimit

\* The policies that return the id of one of the actions they are given.
PicksOffered == {"highestPriority", "first", "last"}

\* The latest event of the log is the roll of the current turn.
JustRolled ==
    /\ IsSome(rollResult)
    /\ history[Len(history)].type = "roll"
    /\ history[Len(history)].turn = turn

\* C12: autoplay invokes the policy only in its choose step, in phase
\* choose right after the roll of the turn, once for the turn (the n-th
\* invocation is made in turn n, after n - 1 finished turns), with the
\* available actions (a policy that picks among the actions it is given
\* never has its choice rejected as not available); and when a run returns,
\* the number of invocations is the number of turns of the returned record.
PolicyOncePerTurn ==
    [][/\ policyCalls' # policyCalls =>
             \/ AutoplayCall /\ policyCalls' = 0
             \/ /\ AutoChoose
                /\ phase = "choose"
                /\ JustRolled
                /\ policyCalls' = policyCalls + 1
                /\ policyCalls = Len(replayTurns)
                /\ turn = policyCalls'
                /\ policy \in PicksOffered
                      => lastCall' # Thrown("choose", "ActionNotAvailable")
       /\ (AutoEndTurn /\ lastCall'.result = "ok") => policyCalls = Len(replayTurns')
       /\ (AutoReturn /\ pc' = "returned")
             => policyCalls = Len(returned'[Len(returned')].turns)]_vars

\* An autoplay of the miners, whose available actions change with the ore,
\* returned after the policy was invoked for each of its turns.
PolicyInvokedEachTurn ==
    /\ template = MinersTemplate
    /\ pc = "returned"
    /\ policyCalls >= 2
    /\ policyCalls = Len(returned[Len(returned)].turns)

\* C13: autoplay is fail-fast: when a call made by its loop throws (the
\* snapshot, the policy, roll, choose, apply or endTurn), autoplay ends
\* there without returning a record, and after that it makes no further
\* call: nothing is retried and no turn is skipped.
AutoplayFailsFast ==
    [][/\ (AutoplayLoop /\ lastCall'.result = "throw")
             => (pc' = "failed" /\ returned' = returned)
       /\ pc = "failed" => UNCHANGED <<sessionVars, lastCall, autoplayVars>>]_vars

\* autoplay ended at an apply() that took a resource below its minimum,
\* and returned nothing.
AutoplayFailedAtApply ==
    /\ pc = "failed"
    /\ lastCall = Thrown("apply", "BelowMinimum")
    /\ phase = "apply"
    /\ returned = <<>>

\* The conditions of the template's actions, evaluated in the current
\* context: the action is offered (no condition, or a condition that is
\* true), or its condition does not evaluate to a boolean.
Offered(action) ==
    \/ ~IsSome(action.conditionAst)
    \/ ConditionValue(action) = BoolV(TRUE)

Unchecked(action) ==
    /\ IsSome(action.conditionAst)
    /\ ConditionValue(action).t # "boolean"

ConditionFails == \E i \in 1..Len(template.actions) : Unchecked(template.actions[i])

OfferedIds ==
    {template.actions[i].id : i \in {j \in 1..Len(template.actions) :
                                        Offered(template.actions[j])}}

ActionOf(id) ==
    template.actions[CHOOSE i \in 1..Len(template.actions) : template.actions[i].id = id]

ChooseIds == ActionIds(template) \cup {"missing"}

\* choose(id) took effect: the action is stored, its id written into the open
\* replay turn, a choose event appended and the phase is apply.
Chosen(id) ==
    /\ lastCall' = Returned("choose", Some(ActionOf(id)))
    /\ chosenAction' = Some(ActionOf(id))
    /\ phase' = "apply"
    /\ currentReplayTurn' = Some([Get(currentReplayTurn) EXCEPT !.actionId = Some(id)])
    /\ history' = Append(history, [type |-> "choose", phase |-> "choose", turn |-> turn,
                                   actionId |-> id, timestamp |-> Len(history) + 1])
    /\ UNCHANGED <<turn, resources, rollResult, replayTurns, finalScore, rng>>

NotAvailable ==
    /\ lastCall' = Thrown("choose", "ActionNotAvailable")
    /\ UNCHANGED <<phase, chosenAction, currentReplayTurn, replayTurns, history>>

\* C14 as stated: choose(id) in phase choose takes effect when id is the id
\* of an action with no condition or a true condition, and otherwise fails
\* with the action-not-available error, leaving phase, chosen action,
\* replay buffer and event log unchanged.
ChooseAvailableOrNotAvailable ==
    [][\A id \in ChooseIds :
          (SessionCall /\ phase = "choose" /\ choose(id)) =>
              IF ~ConditionFails /\ id \in OfferedIds THEN Chosen(id) ELSE NotAvailable]_vars

\* C14, amended: as stated when every condition of the template evaluates
\* to a boolean; when one does not, choose(id) fails for every id with the
\* evaluation error of listAvailableActions(), and leaves the session as it
\* was.
ChooseAvailableOrFails ==
    [][\A id \in ChooseIds :
          (SessionCall /\ phase = "choose" /\ choose(id)) =>
              IF ConditionFails
              THEN /\ lastCall' = Thrown("choose", "MiniExprEvaluationError")
                   /\ UNCHANGED sessionVars
              ELSE IF id \in OfferedIds THEN Chosen(id) ELSE NotAvailable]_vars

\* A choice was rejected in the first turn of the miners, where refine and
\* overload are not available.
ChoiceRejected ==
    /\ template = MinersTemplate
    /\ phase = "choose"
    /\ turn = 1
    /\ lastCall = Thrown("choose", "ActionNotAvailable")

\* The positions in the template of the offered actions, and the k-th of
\* them in declaration order.
OfferedPositions == {i \in 1..Len(template.actions) : Offered(template.actions[i])}

NthOffered(k) ==
    CHOOSE i \in OfferedPositions : Cardinality({j \in OfferedPositions : j <= i}) = k

\* C15: with a roll active, listAvailableActions() fails when a condition
\* does not evaluate to a boolean, and otherwise returns exactly the
\* template's actions that have no condition or a true condition, in
\* declaration order.
AvailableInDeclarationOrder ==
    IsSome(rollResult) =>
        IF ConditionFails
        THEN ~listAvailableActions.ok
        ELSE /\ listAvailableActions.ok
             /\ listAvailableActions.actions =
                   [k \in 1..Cardinality(OfferedPositions) |->
                       template.actions[NthOffered(k)]]

\* Some actions of the miners are offered and others not, and an action of
\* lower priority is listed ahead of one of higher priority.
ListedAgainstPriority ==
    /\ template = MinersTemplate
    /\ phase = "choose"
    /\ listAvailableActions.ok
    /\ Len(listAvailableActions.actions) \in 2..3
    /\ listAvailableActions.actions[1].priority < listAvailableActions.actions[2].priority

\* C16: highestPriorityPolicy fails on an empty list, and otherwise returns
\* the id of the first action of the list among those whose priority is the
\* maximum over the list.
HighestPriorityFirst ==
    (program = "policy" /\ IsSome(output)) =>
        IF Len(input) = 0
        THEN ~Get(output).ok
        ELSE /\ Get(output).ok
             /\ \E i \in 1..Len(input) :
                   /\ Get(output).id = input[i].id
                   /\ \A j \in 1..Len(input) : input[j].priority <= input[i].priority
                   /\ \A j \in 1..(i - 1) : input[j].priority < input[i].priority

\* The policy was given a list whose maximum priority is shared by its
\* second and third actions, and picked the second.
PickedFirstOfTied ==
    /\ program = "policy"
    /\ IsSome(output)
    /\ Len(input) >= 3
    /\ input[1].priority < input[2].priority
    /\ input[2].priority = MaxPriority
    /\ input[3].priority = MaxPriority
    /\ Get(output).id = input[2].id

\* C17: endTurn() called in phase end when an end condition is satisfied and
\* the scoring expression does not evaluate to a number fails, and leaves
\* the event log, the replay turns, the open replay turn, the phase and the
\* turn as they were before the call.
FailedEndTurnLeavesState ==
    [][(Invokes("endTurn") /\ phase = "end" /\ shouldEndGame /\ IsErr(evaluateScore))
          => /\ lastCall'.result = "throw"
             /\ UNCHANGED <<history, replayTurns, currentReplayTurn, phase, turn>>]_vars

\* The log before a step is a prefix of the log after it.
LogExtended ==
    /\ Len(history') >= Len(history)
    /\ SubSeq(history', 1, Len(history)) = history

\* C18: the event log is append-only with increasing timestamps: in every
\* state the i-th event has timestamp i and the timestamp counter is the
\* number of events, and every step on a session leaves the events already
\* logged unchanged and in place.
EventLogAppendOnly ==
    /\ [](/\ timestampCounter = Len(history)
          /\ \A i \in 1..Len(history) : history[i].timestamp = i)
    /\ [][~Constructs => LogExtended]_vars

\* A completed session of two turns whose log ends with the endTurn and
\* complete events of one call, after a further call was refused.
LogOfCompletedSession ==
    /\ phase = "complete"
    /\ lastCall.result = "throw"
    /\ Len(history) >= 2 + 4 * TurnLimit
    /\ history[Len(history)].type = "complete"
    /\ history[Len(history) - 1].type = "endTurn"

SerializedRngContinues ==
    (program = "rng" /\ IsSome(output.restored)) =>
        /\ Get(output.restored) = output.original
        /\ IsSome(output.values) => Get(output.values)[1] = Get(output.values)[2]

\* After two draws the rng was serialized and restored, and both have been
\* drawn from three times since; the state has bits in its top hex digit.
RestoredRngDrawn ==
    /\ program = "rng"
    /\ IsSome(output.restored)
    /\ output.prior = 2
    /\ output.later = MaxDraws
    /\ toHex(output.original[1])[1] # 0
    /\ toHex(output.original[1])[HexDigits] # 0

\* The argument of the call is a positive integer.
PositiveInteger(x) == ~x.fraction /\ ~x.negative /\ x.whole # ZeroWord

\* C21: nextInt(maxExclusive) returns an integer v with 0 <= v <
\* maxExclusive for every positive integer maxExclusive and every state of
\* the rng, and for a maxExclusive that is zero, negative or not an integer
\* it fails with a range error and leaves the state of the rng as it was.
NextIntWithinRange ==
    (program = "nextInt" /\ IsSome(output)) =>
        IF PositiveInteger(input.maxExclusive)
        THEN /\ Get(output).ok
             /\ LessWord(Get(output).value, input.maxExclusive.whole)
        ELSE /\ ~Get(output).ok
             /\ Get(output).error = "RangeError"
             /\ Get(output).rng = input.rng

\* C22: the state of an rng is never (0, 0): not after construction from a
\* seed of any form (an all-zero pair or serialized state becomes (0, 1)),
\* and not after any number of nextBigInt steps.
StateNeverZero ==
    (program = "seed" /\ IsSome(output) /\ Get(output).rng.ok) =>
        /\ Get(output).rng.state # <<ZeroWord, ZeroWord>>
        /\ (/\ Get(output).draws = 0
            /\ \/ input.type = "array" /\ input.array = <<ZeroWord, ZeroWord>>
               \/ input.type = "serialized" /\ input.state = SeedOf(0, 0))
              => Get(output).rng.state = <<ZeroWord, WordOf(1)>>

\* An rng made from the all-zero pair has taken all its steps.
ZeroPairStepped ==
    /\ program = "seed"
    /\ input.type = "array"
    /\ input.array = <<ZeroWord, ZeroWord>>
    /\ IsSome(output)
    /\ Get(output).draws = MaxDraws
    /\ Get(output).rng.state # <<ZeroWord, ZeroWord>>

\* The formula of the call was compiled, and evaluated to the given value.
Compiles(text) == program = "expr" /\ input.text = text /\ IsSome(output)

CompilesTo(text, node) ==
    Compiles(text) => Get(output).compiled.ok /\ Get(output).compiled.node = node

Evaluates(text) == Compiles(text) /\ IsSome(Get(output).value)

EvaluatesTo(text, type, value) ==
    Evaluates(text) =>
        /\ Get(Get(output).value).t = type
        /\ Get(Get(output).value).v = value

\* The level of a binary operator, || lowest and ^ highest.
Rank(operator) ==
    CASE operator = "||" -> 1
      [] operator = "&&" -> 2
      [] operator \in {"==", "!="} -> 3
      [] operator \in {"<", "<=", ">", ">="} -> 4
      [] operator \in {"+", "-"} -> 5
      [] operator \in {"*", "/", "%"} -> 6
      [] operator = "^" -> 7

\* C23: the precedence of the parser is, lowest to highest, ||, &&,
\* equality, comparison, additive, multiplicative, exponent, then unary and
\* primary; parentheses override it and the binary operators of one level
\* group to the left: "a op b op c" groups to the right only when the second
\* operator is of a higher level than the first, `1 + 2 * 3` evaluates to 7,
\* `(1 + 2) * 3` to 9 and `10 - 3 - 2` to 5.
PrecedenceAndGrouping ==
    /\ Compiles("a op b op c") =>
          LET first == input.source[2].value
              second == input.source[4].value
          IN /\ Get(output).compiled.ok
             /\ Get(output).compiled.node =
                   IF Rank(second) > Rank(first)
                   THEN Binary(Num(1), first, Binary(Num(2), second, Num(3)))
                   ELSE Binary(Binary(Num(1), first, Num(2)), second, Num(3))
    /\ EvaluatesTo("1 + 2 * 3", "number", 7)
    /\ EvaluatesTo("(1 + 2) * 3", "number", 9)
    /\ EvaluatesTo("10 - 3 - 2", "number", 5)
    /\ EvaluatesTo("10 - (3 - 2)", "number", 9)
    /\ EvaluatesTo("8 / 4 / 2", "number", 1)
    /\ EvaluatesTo("1 + 2 < 4 == true", "boolean", TRUE)
    /\ EvaluatesTo("true || false && false", "boolean", TRUE)
    /\ EvaluatesTo("!true == false", "boolean", TRUE)
    /\ CompilesTo("MAX(1, 2 + x)",
                  [type |-> "CallExpression", callee |-> Id("MAX"),
                   arguments |-> <<Num(1), Binary(Num(2), "+", Id("x"))>>])

\* `10 - 3 - 2` was compiled and evaluated to 5.
SubtractionEvaluated ==
    /\ Evaluates("10 - 3 - 2")
    /\ Get(Get(output).value) = NumV(5)

\* C24: exponentiation groups to the left and its operands are unary
\* expressions: `2 ^ 3 ^ 2` is (2 ^ 3) ^ 2 = 64, and a leading unary minus
\* binds tighter than ^, so that `-2 ^ 2` is (-2) ^ 2 = 4.
ExponentLeftAssociative ==
    /\ CompilesTo("2 ^ 3 ^ 2", Binary(Binary(Num(2), "^", Num(3)), "^", Num(2)))
    /\ EvaluatesTo("2 ^ 3 ^ 2", "number", 64)
    /\ EvaluatesTo("2 ^ (3 ^ 2)", "number", 512)
    /\ CompilesTo("-2 ^ 2", Binary(Unary("-", Num(2)), "^", Num(2)))
    /\ EvaluatesTo("-2 ^ 2", "number", 4)
    /\ EvaluatesTo("-(2 ^ 2)", "number", -4)
    /\ CompilesTo("2 ^ -x", Binary(Num(2), "^", Unary("-", Id("x"))))
    /\ CompilesTo("2 * -3 ^ 2",
                  Binary(Num(2), "*", Binary(Unary("-", Num(3)), "^", Num(2))))
    /\ EvaluatesTo("2 * -3 ^ 2", "number", 18)

\* `2 ^ 3 ^ 2` was compiled and evaluated to 64.
ExponentChainEvaluated ==
    /\ Evaluates("2 ^ 3 ^ 2")
    /\ Get(Get(output).value) = NumV(64)

\* C25: && and || short-circuit: with a falsy left operand && is false and
\* with a truthy one || is true, without the right operand being evaluated,
\* so that a right operand that would fail raises no error; otherwise the
\* right operand is evaluated, and its failure is the result; in every case
\* a result is a boolean.
LogicalShortCircuit ==
    /\ EvaluatesTo("false && missing", "boolean", FALSE)
    /\ EvaluatesTo("true || missing", "boolean", TRUE)
    /\ EvaluatesTo("false && 1 / 0 > 0", "boolean", FALSE)
    /\ EvaluatesTo("true || 1 / 0 > 0", "boolean", TRUE)
    /\ EvaluatesTo("0 && missing", "boolean", FALSE)
    /\ EvaluatesTo("null && missing", "boolean", FALSE)
    /\ EvaluatesTo("x || missing", "boolean", TRUE)
    /\ EvaluatesTo("true && x", "boolean", TRUE)
    /\ EvaluatesTo("false || 0", "boolean", FALSE)
    /\ EvaluatesTo("false || null", "boolean", FALSE)
    /\ EvaluatesTo("true && missing", "error", "Unknown identifier")
    /\ EvaluatesTo("false || 1 / 0 > 0", "error", "Division by zero")
    /\ (Evaluates(input.text) /\ Get(output).compiled.node.type = "BinaryExpression"
           /\ Get(output).compiled.node.operator \in {"&&", "||"})
          => Get(Get(output).value).t \in {"boolean", "error"}

\* `false && 1 / 0 > 0` was evaluated, to false.
FailingOperandSkipped ==
    /\ Evaluates("false && 1 / 0 > 0")
    /\ Get(Get(output).value) = BoolV(FALSE)

\* C26: a division or modulo whose right operand evaluates to 0 compiles,
\* and fails at evaluation with an evaluation error: it is no syntax error
\* and returns no value.
DivisionByZeroFailsAtEvaluation ==
    (/\ program = "expr"
     /\ IsSome(output)
     /\ input.evaluate
     /\ Len(input.source) >= 3
     /\ input.source[2].type = "operator"
     /\ input.source[2].value \in {"/", "%"}
     /\ input.source[1].type \in {"number", "identifier"}
     /\ LET right == parseExpression(SubSeq(input.source, 3, Len(input.source)))
        IN /\ right.ok
           /\ evaluateExpression(right.node, ExprVariables) = NumV(0))
        => /\ Get(output).compiled.ok
           /\ Get(output).compiled.node.type = "BinaryExpression"
           /\ Get(output).compiled.node.operator = input.source[2].value
           /\ IsSome(Get(output).value) =>
                 /\ Get(Get(output).value).t = "error"
                 /\ Get(Get(output).value).v =
                       IF input.source[2].value = "/" THEN "Division by zero"
                       ELSE "Modulo by zero"

\* `1 / (2 - 2)` was compiled and its evaluation failed.
ZeroDivisorEvaluated ==
    /\ Evaluates("1 / (2 - 2)")
    /\ Get(Get(output).value).t = "error"


\* The kinds of event of one turn, in the order of the calls.
TurnEvents == <<"roll", "choose", "apply", "endTurn">>

\* The events after the setup event, a last complete event left aside.
TurnLog ==
    IF history # <<>> /\ history[Len(history)].type = "complete"
    THEN SubSeq(history, 2, Len(history) - 1)
    ELSE SubSeq(history, 2, Len(history))

\* C27: the event log of a session always has the shape: the setup event
\* (turn 0, the initial resources) first, then for each turn t = 1, 2, ...
\* the events roll, choose, apply, endTurn in that order, each carrying t and
\* each kind once per turn; a complete event is the last event if and only
\* if the phase is complete.
EventLogShape ==
    phase # "setup" =>
        /\ history # <<>>
        /\ history[1].type = "setup"
        /\ history[1].turn = 0
        /\ history[1].resources =
              [id \in ResourceIds(template) |-> resourceMap(template, id).initial]
        /\ \A k \in 1..Len(TurnLog) :
              /\ TurnLog[k].type = TurnEvents[((k - 1) % Len(TurnEvents)) + 1]
              /\ TurnLog[k].turn = ((k - 1) \div Len(TurnEvents)) + 1
        /\ (history[Len(history)].type = "complete") <=> (phase = "complete")


\* An end condition holds for the current turn and resources, as the claim
\* states it.
ConditionHolds(condition) ==
    IF condition.type = "turnLimit" THEN turn >= condition.limit
    ELSE LET value == resources[condition.resource]
             threshold == condition.value
         IN /\ value # NaN
            /\ CASE condition.comparison = ">" -> value > threshold
                 [] condition.comparison = ">=" -> value >= threshold
                 [] condition.comparison = "<" -> value < threshold
                 [] condition.comparison = "<=" -> value <= threshold
                 [] condition.comparison = "==" -> value = threshold
                 [] condition.comparison = "!=" -> value # threshold

SomeConditionHolds ==
    \E i \in 1..Len(template.endConditions) : ConditionHolds(template.endConditions[i])

\* C28: an endTurn() that succeeds ends the game exactly when an end
\* condition holds for the turn and the resources at the call: then the
\* final score is the value of the scoring expression on the resources, the
\* turn and the roll of that moment and the phase is complete; when none
\* holds the phase is not complete and no final score is set.
EndTurnEndsOnCondition ==
    [][Succeeds("endTurn") =>
          IF SomeConditionHolds
          THEN /\ phase' = "complete"
               /\ IsSome(rollResult)
               /\ evaluateExpression(template.scoring, createVariables).t = "number"
               /\ finalScore' =
                     Some(evaluateExpression(template.scoring, createVariables).v)
               /\ UNCHANGED <<resources, turn, rollResult>>
          ELSE /\ phase' = "roll"
               /\ finalScore' = None
               /\ finalScore = None]_vars

\* A game ended in its first turn, ahead of the turn limit, by the roll of 2
\* dug into three gems: the score is 3 + 1 * 10 + 2.
EndedByThreshold ==
    /\ template = ThresholdTemplate
    /\ lastCall.op = "endTurn"
    /\ lastCall.result = "ok"
    /\ phase = "complete"
    /\ turn < TurnLimit
    /\ resources = [cash |-> 1, stock |-> 1, gems |-> 3, luck |-> 1]
    /\ finalScore = Some(15)


\* C29: an endTurn() that succeeds with no end condition holding raises the
\* turn number by exactly 1, clears the roll result and moves to phase roll,
\* and leaves the resources, the final score (unset) and the RNG state as
\* they were; no other operation on a session changes its turn number.
EndTurnAdvancesTurn ==
    [][/\ (Succeeds("endTurn") /\ ~SomeConditionHolds) =>
             /\ turn' = turn + 1
             /\ rollResult' = None
             /\ IsSome(rollResult)
             /\ phase' = "roll"
             /\ finalScore = None
             /\ UNCHANGED <<resources, finalScore, rng>>
       /\ (turn' # turn /\ ~Constructs) =>
             (Succeeds("endTurn") /\ ~SomeConditionHolds)]_vars

\* The second turn of the miners opened by endTurn(): the ore and crystal
\* gained in the first turn are kept, and no roll is held.
SecondTurnOpened ==
    /\ template = MinersTemplate
    /\ lastCall.op = "endTurn"
    /\ lastCall.result = "ok"
    /\ phase = "roll"
    /\ turn = 2
    /\ rollResult = None
    /\ finalScore = None
    /\ resources.ore > 0
    /\ resources.crystal > 0


\* The event of a kind logged for a turn (the first one, should there be more).
EventOf(type, t) ==
    history[CHOOSE i \in 1..Len(history) :
               /\ history[i].type = type
               /\ history[i].turn = t
               /\ \A j \in 1..(i - 1) : ~(history[j].type = type /\ history[j].turn = t)]

\* The turns for which endTurn() was called after roll, choose and apply.
EndedTurns == {history[i].turn : i \in {j \in 1..Len(history) : history[j].type = "endTurn"}}

\* C30: each turn that went through roll, choose, apply and endTurn has
\* exactly one replay record, at the position of its turn number, holding
\* the turn number, the roll result, the id of the chosen action and the
\* resources after the apply of that turn; a record is appended by endTurn(),
\* one at a time, and once appended is never changed or removed.
ReplayRecordPerTurn ==
    /\ [](phase # "setup" =>
            /\ EndedTurns = 1..Len(replayTurns)
            /\ \A t \in 1..Len(replayTurns) :
                  /\ replayTurns[t].turn = t
                  /\ replayTurns[t].roll = EventOf("roll", t).roll
                  /\ replayTurns[t].actionId = EventOf("choose", t).actionId
                  /\ replayTurns[t].resources = EventOf("apply", t).resulting)
    /\ [][~Constructs =>
            /\ Len(replayTurns') >= Len(replayTurns)
            /\ SubSeq(replayTurns', 1, Len(replayTurns)) = replayTurns
            /\ replayTurns' # replayTurns =>
                  /\ Invokes("endTurn")
                  /\ Len(replayTurns') = Len(replayTurns) + 1
                  /\ replayTurns'[Len(replayTurns')].turn = turn]_vars

\* Two turns of the miners recorded, with different rolls or resources, in a
\* completed session.
TwoTurnsRecorded ==
    /\ template = MinersTemplate
    /\ phase = "complete"
    /\ Len(replayTurns) = 2
    /\ replayTurns[1].turn = 1
    /\ replayTurns[2].turn = 2
    /\ replayTurns[1].actionId # replayTurns[2].actionId
    /\ replayTurns[1].resources # replayTurns[2].resources


\* C31: a roll() that succeeds draws exactly count values of the template's
\* first dice definition, each in 1..sides; total is their sum, highest
\* their maximum and lowest their minimum, so lowest <= value <= highest for
\* every value and count <= total <= count * sides; and the one result is
\* returned, stored as the current roll, written to a new replay-turn buffer
\* and recorded in the roll event.
RollDrawsDice ==
    [][Succeeds("roll") =>
          LET dice == template.dice[1]
              result == Get(rollResult')
              values == result.values
              positions == 1..Len(values)
          IN /\ IsSome(rollResult')
             /\ result.diceId = dice.id
             /\ Len(values) = dice.count
             /\ \A i \in positions : values[i] \in 1..dice.sides
             /\ result.total = Sum(values)
             /\ \E i \in positions : result.highest = values[i]
             /\ \E i \in positions : result.lowest = values[i]
             /\ \A i \in positions : result.lowest <= values[i] /\ values[i] <= result.highest
             /\ dice.count <= result.total
             /\ result.total <= dice.count * dice.sides
             /\ lastCall'.value = Some(result)
             /\ currentReplayTurn' = Some([turn |-> Some(turn), roll |-> Some(result),
                                           actionId |-> None, resources |-> None])
             /\ Len(history') = Len(history) + 1
             /\ history'[Len(history')].type = "roll"
             /\ history'[Len(history')].turn = turn
             /\ history'[Len(history')].roll = result]_vars

\* Two dice of three sides rolled with different values.
TwoDiceRolled ==
    /\ template = MinersTemplate
    /\ lastCall.op = "roll"
    /\ lastCall.result = "ok"
    /\ IsSome(rollResult)
    /\ Len(Get(rollResult).values) = 2
    /\ Get(rollResult).lowest < Get(rollResult).highest
    /\ Get(rollResult).total = Get(rollResult).lowest + Get(rollResult).highest


\* 2^64 mod n for a word n that is not zero: one more than (2^64 - 1) mod n,
\* which is at most n, and 0 if that is n.
TwoTo64Mod(n) ==
    LET rest == RemWord(UINT64_MASK, n)
    IN IF rest = SubWord(n, WordOf(1)) THEN ZeroWord
       ELSE AddWord(rest, WordOf(1))

\* A raw draw is below 2^64 - (2^64 mod n).
BelowThreshold(value, n) ==
    LET excess == TwoTo64Mod(n)
        threshold == SubWord(ZeroWord, excess)
    IN \/ excess = ZeroWord
       \/ threshold # ZeroWord /\ LessWord(value, threshold)

\* C32: nextInt(maxExclusive) accepts a raw 64-bit draw exactly when it is
\* below 2^64 - (2^64 mod maxExclusive) and draws again otherwise: the call
\* ends after its first draw exactly when that draw is below this threshold,
\* for every positive integer maxExclusive, powers of two and 1 included.
NextIntThreshold ==
    (program = "nextInt" /\ IsSome(output) /\ PositiveInteger(input.maxExclusive)) =>
        LET first == nextBigInt(input.rng)
        IN BelowThreshold(first.value, input.maxExclusive.whole)
              <=> (Get(output).rng = first.rng)


\* C33: the session holds no roll result exactly in the states whose phase
\* is roll, before the first roll as after every endTurn() that did not end
\* the game, and holds one in the phases choose, apply, end and complete;
\* and in every state of phase roll listAvailableActions() returns the
\* empty list.
RollHeldOutsideRollPhase ==
    phase # "setup" =>
        /\ (rollResult = None) <=> (phase = "roll")
        /\ phase \in {"choose", "apply", "end", "complete"} => IsSome(rollResult)
        /\ phase = "roll" =>
              /\ listAvailableActions.ok
              /\ listAvailableActions.actions = <<>>

\* listAvailableActions() called in the roll phase of the second turn returned
\* the empty list.
NoActionsBeforeSecondRoll ==
    /\ phase = "roll"
    /\ turn = 2
    /\ rollResult = None
    /\ lastCall.op = "listAvailableActions"
    /\ lastCall.result = "ok"
    /\ Get(lastCall.value).actions = <<>>


RECURSIVE RngBeforeTurn(_)
\* The state of the rng of a session of the template and seed at the roll of
\* turn k: that of the construction, stepped by the rolls of the turns before.
RngBeforeTurn(k) ==
    IF k = 1 THEN SessionRng(seed)
    ELSE DrawValues(RngBeforeTurn(k - 1), template.dice[1].sides, template.dice[1].count).rng

\* The roll of turn k, from the template and the seed alone.
RollOfTurn(k) ==
    RollResult(template.dice[1].id,
               DrawValues(RngBeforeTurn(k), template.dice[1].sides,
                          template.dice[1].count).values)

ApplyWouldFail == phase = "apply" /\ applyChosenAction.error # ""

\* C35: an apply() that fails leaves the session in phase apply with the
\* chosen action and the resources it had; from then on every operation on
\* that session leaves phase, turn, chosen action, resources and roll (all
\* that apply() reads) as they are, choose() is rejected, every later
\* apply() fails with the same error, and the session never reaches phase
\* complete.
FailedApplyIsFinal ==
    [][/\ (phase = "apply" /\ Invokes("apply") /\ lastCall'.result = "throw") =>
             ApplyWouldFail
       /\ (phase = "apply" /\ ~Constructs /\ ApplyWouldFail) =>
             /\ phase' = "apply"
             /\ UNCHANGED <<turn, chosenAction, resources, rollResult, history,
                            replayTurns, finalScore, rng>>
             /\ Invokes("apply") => lastCall' = Thrown("apply", applyChosenAction.error)
             /\ Invokes("choose") => lastCall' = Thrown("choose", "PhaseMismatch")]_vars

\* apply() has failed on the vent of the miners, which takes the ore below
\* its minimum, in a session driven by direct calls.
ApplyFailedBelowMinimum ==
    /\ program = "manual"
    /\ template = MinersTemplate
    /\ phase = "apply"
    /\ IsSome(chosenAction)
    /\ Get(chosenAction).id = "vent"
    /\ lastCall.op = "apply"
    /\ lastCall.result = "throw"
    /\ resources = [ore |-> 0, crystal |-> 0]


\* The delta of a resource in a record of deltas, 0 when it has no entry.
DeltaOf(deltas, r) == IF r \in DOMAIN deltas THEN deltas[r] ELSE 0

\* C36: after every apply() that succeeds, for every resource the delta in
\* the returned outcome and in the apply event (0 when the resource has no
\* entry) is the value of the resource after the call minus its value before
\* the call, also when the action has several effects on one resource and
\* one of them is clamped at the maximum.
DeltasAreDifferences ==
    [][(phase = "apply" /\ Succeeds("apply")) =>
          \A r \in DOMAIN resources :
             /\ DeltaOf(Get(lastCall'.value).deltas, r) = NumSub(resources'[r], resources[r])
             /\ DeltaOf(history'[Len(history')].deltas, r)
                   = NumSub(resources'[r], resources[r])]_vars


\* C37: in every state of a session a chosen action is stored if and only if
\* the phase is apply: a choose() that succeeds stores the action of the id
\* given, an apply() that succeeds clears it, and none is stored in the
\* phases roll, choose, end and complete.
ChosenActionInApplyOnly ==
    /\ [](phase # "setup" => (IsSome(chosenAction) <=> phase = "apply"))
    /\ [][/\ Succeeds("choose") =>
                /\ chosenAction = None
                /\ IsSome(chosenAction')
                /\ Get(chosenAction') = Get(Find(template.actions, Get(chosenAction').id))
                /\ history'[Len(history')].actionId = Get(chosenAction').id
          /\ (phase = "apply" /\ Succeeds("apply")) =>
                (IsSome(chosenAction) /\ chosenAction' = None)
          /\ (chosenAction' # chosenAction /\ ~Constructs) =>
                (Succeeds("choose") \/ Succeeds("apply"))]_vars

\* The end phase of the second turn of the thresholds template: two actions
\* were chosen and applied, and none is stored.
NoChoiceAfterSecondApply ==
    /\ template = ThresholdTemplate
    /\ phase = "end"
    /\ turn = 2
    /\ lastCall.op = "apply"
    /\ lastCall.result = "ok"
    /\ chosenAction = None
    /\ Len(replayTurns) = 1


\* C38: in every state of a session the number of replay turns recorded is
\* turn - 1 while the phase is roll, choose, apply or end, and turn when the
\* phase is complete, and the i-th replay turn recorded has turn number i.
ReplayTurnsFollowTurn ==
    phase # "setup" =>
        /\ Len(replayTurns) = IF phase = "complete" THEN turn ELSE turn - 1
        /\ \A i \in 1..Len(replayTurns) : replayTurns[i].turn = i


\* What a simulation returns of the session: the fields behind the snapshot,
\* the events and the replay.
Observed == <<phase, turn, resources, rollResult, history, replayTurns, finalScore>>

\* C39: simulateSession runs the commands below the pointer in order on a
\* fresh session and stops at the first command that fails: a command that
\* fails leaves the session as the last successful command left it and its
\* error is the error returned, no command is run after it, and the result
\* holds the snapshot, the events and the replay of the session at that
\* point; the error is null exactly when every command below the pointer
\* succeeded.
SimulationStopsAtFailure ==
    [][/\ SimulateStep =>
             /\ simError = None
             /\ lastCall'.op = commands[index + 1].type
             /\ IF lastCall'.result = "ok"
                THEN index' = index + 1 /\ simError' = None
                ELSE /\ index' = index
                     /\ simError' = Some(lastCall'.error)
                     /\ Observed' = Observed
       /\ (program = "simulate" /\ simError # None /\ ~SimulateCall /\ ~SimulateReplay) =>
             (Observed' = Observed /\ UNCHANGED <<index, simError>>)
       /\ SimulateReturn =>
             /\ Get(simResult').events = history
             /\ Get(simResult').snapshot = getSnapshot
             /\ Get(simResult').replay = getReplay
             /\ Get(simResult').error = simError
             /\ (simError = None) <=> (index = pointer)]_vars


\* The events of one simulation are the first events of another.
EventsPrefix(short, long) ==
    /\ Len(short) <= Len(long)
    /\ \A i \in 1..Len(short) : long[i] = short[i]

=============================================================================
